---- MODULE Spec2Model ----
(***************************************************************************)
(* The typed gRPC service-client layer of the admin application:           *)
(* DeliveryClient (infrastructure/grpc/delivery_client.py) and OmsClient   *)
(* (infrastructure/grpc/oms_client.py), their enum tables, proto->domain   *)
(* conversions, lazy connection, close(), and the module-level registry.   *)
(*                                                                         *)
(* Python values are modelled as follows.  None is the string NoneStr      *)
(* where a string is expected, the id 0 where an object reference is       *)
(* expected, and the record NoneVal where a returned value is expected.    *)
(* An exception is the name of its class.  A channel is its index in       *)
(* `channels`; a stub is the index of the channel it was bound to.         *)
(***************************************************************************)
EXTENDS Integers, Sequences, FiniteSets, TLC

VARIABLES
    bindings,   \* which generated modules can be imported, per service
    clients,    \* every client object constructed so far, in construction order
    _client,    \* the module-level singletons: service |-> client id, 0 is None
    channels,   \* every channel created by grpc.insecure_channel, in creation order
    last,       \* the last call made by the caller and how it ended
    threads     \* the callers inside _ensure_connected at the same time: where
                \* each one is and its local values

vars == <<bindings, clients, _client, channels, last, threads>>

----------------------------------------------------------------------------
(* Bounds of the model *)

\* client objects constructed in one run
MaxClients == 3
\* channels opened by the one client of the client specification
MaxChannels == 3
\* channels opened by all clients of the registry specification
MaxSharedChannels == 2
\* wire integers beyond the last entry of each enum table that a response may carry
UnmappedWire == 1
\* callers making their first use of one client at the same time
MaxThreads == 2

----------------------------------------------------------------------------
(* Python values *)

NoneStr == "<None>"
NoneVal == [tag |-> "None"]
TrueVal == [tag |-> "bool", v |-> TRUE]

\* Python truthiness of an Optional[str]
Truthy(s) == s # NoneStr /\ s # ""

\* dict.get(key, default)
DictGet(d, k, default) == IF k \in DOMAIN d THEN d[k] ELSE default

\* the exception classes, and `isinstance(exc, cls)` by the class hierarchy
Subclasses(cls) ==
    CASE cls = "DeliveryServiceError" -> {"DeliveryServiceError", "CourierNotFoundError"}
      [] cls = "OmsServiceError" -> {"OmsServiceError", "OrderNotFoundError"}
      [] OTHER -> {cls}

IsInstance(exc, cls) == exc \in Subclasses(cls)

\* grpc.StatusCode values the remote call can end with
StatusCodes == {"OK", "NOT_FOUND", "UNAVAILABLE", "DEADLINE_EXCEEDED", "INTERNAL"}

----------------------------------------------------------------------------
(* Enum tables *)

\* a decode table with the entries of CAR and MOTORCYCLE exchanged
TRANSPORT_TYPES_swapped ==
    (0 :> "UNSPECIFIED" @@ 1 :> "WALKING" @@ 2 :> "BICYCLE" @@ 3 :> "CAR" @@ 4 :> "MOTORCYCLE")

TRANSPORT_TYPES ==
    (0 :> "UNSPECIFIED" @@ 1 :> "WALKING" @@ 2 :> "BICYCLE" @@ 3 :> "MOTORCYCLE" @@ 4 :> "CAR")

TRANSPORT_TYPE_VALUES ==
    ("UNSPECIFIED" :> 0 @@ "WALKING" :> 1 @@ "BICYCLE" :> 2 @@ "MOTORCYCLE" :> 3 @@ "CAR" :> 4)

COURIER_STATUSES ==
    (0 :> "UNSPECIFIED" @@ 1 :> "UNAVAILABLE" @@ 2 :> "FREE" @@ 3 :> "BUSY" @@ 4 :> "ARCHIVED")

COURIER_STATUS_VALUES ==
    ("UNSPECIFIED" :> 0 @@ "UNAVAILABLE" :> 1 @@ "FREE" :> 2 @@ "BUSY" :> 3 @@ "ARCHIVED" :> 4)

PACKAGE_STATUSES ==
    (0 :> "UNSPECIFIED" @@ 1 :> "ACCEPTED" @@ 2 :> "IN_POOL" @@ 3 :> "ASSIGNED"
       @@ 4 :> "IN_TRANSIT" @@ 5 :> "DELIVERED" @@ 6 :> "NOT_DELIVERED"
       @@ 7 :> "REQUIRES_HANDLING")

PRIORITIES == (0 :> "UNSPECIFIED" @@ 1 :> "NORMAL" @@ 2 :> "URGENT")

\* class OrderStatus(IntEnum): the member values
OrderStatusMembers == {0, 1, 2, 3, 4}

ORDER_STATUS_NAMES ==
    (0 :> "Unspecified" @@ 1 :> "Pending" @@ 2 :> "Processing" @@ 3 :> "Completed"
       @@ 4 :> "Cancelled")

\* the largest key of a table
MaxKey(d) == CHOOSE k \in DOMAIN d : \A j \in DOMAIN d : j <= k

\* the wire integers a response may carry for the enum with table d
WireInts(d) == 0 .. (MaxKey(d) + UnmappedWire)

OrderWireInts ==
    0 .. ((CHOOSE k \in OrderStatusMembers : \A j \in OrderStatusMembers : j <= k)
            + UnmappedWire)

----------------------------------------------------------------------------
(* Environment: the generated bindings *)

\* "ok": the stub module and the message module both import;
\* "no_grpc": the stub module (delivery_pb2_grpc / order_rpc_pb2_grpc) does not;
\* "none": neither does (the stub module imports the message module).
BindingStates == {"ok", "no_grpc", "none"}

StubModuleImports(svc) == bindings[svc] = "ok"

MessageModuleImports(svc) == bindings[svc] # "none"

----------------------------------------------------------------------------
(* Construction, connection, close *)

\* the values of an `auth_token: Optional[str]` argument
AuthTokens == {NoneStr, "", "t1"}

\* DeliveryClient.__init__
DeliveryClient(auth_token) ==
    [kind |-> "delivery", _channel |-> 0, _stub |-> 0, _auth_token |-> auth_token]

\* OmsClient.__init__
OmsClient ==
    [kind |-> "oms", _channel |-> 0, _stub |-> 0, _auth_token |-> NoneStr]

\* a metadata builder that sends the token without the Bearer scheme
_get_metadata_bare(cl) ==
    IF Truthy(cl._auth_token)
    THEN << <<"authorization", cl._auth_token>> >>
    ELSE << >>

\* DeliveryClient._get_metadata
_get_metadata(cl) ==
    IF Truthy(cl._auth_token)
    THEN << <<"authorization", "Bearer " \o cl._auth_token>> >>
    ELSE << >>

\* a connection step that does not test `self._channel is None`
DeliveryClient_connect_every_call(cl, fresh) ==
    IF StubModuleImports("delivery")
    THEN [client |-> [cl EXCEPT !._channel = fresh, !._stub = fresh],
          created |-> fresh, exc |-> "-"]
    ELSE [client |-> [cl EXCEPT !._channel = fresh],
          created |-> fresh, exc |-> "DeliveryServiceError"]

\* DeliveryClient._ensure_connected; `fresh` is the channel
\* grpc.insecure_channel returns.  The channel is assigned before the import
\* of delivery_pb2_grpc, so it stays assigned when the import fails; the
\* ImportError is caught and DeliveryServiceError raised.
DeliveryClient_ensure_connected(cl, fresh) ==
    IF cl._channel = 0
    THEN IF StubModuleImports("delivery")
         THEN [client |-> [cl EXCEPT !._channel = fresh, !._stub = fresh],
               created |-> fresh, exc |-> "-"]
         ELSE [client |-> [cl EXCEPT !._channel = fresh],
               created |-> fresh, exc |-> "DeliveryServiceError"]
    ELSE [client |-> cl, created |-> 0, exc |-> "-"]

\* OmsClient._ensure_connected: the same, with no try around the import of
\* order_rpc_pb2_grpc, whose ImportError propagates.
OmsClient_ensure_connected(cl, fresh) ==
    IF cl._channel = 0
    THEN IF StubModuleImports("oms")
         THEN [client |-> [cl EXCEPT !._channel = fresh, !._stub = fresh],
               created |-> fresh, exc |-> "-"]
         ELSE [client |-> [cl EXCEPT !._channel = fresh],
               created |-> fresh, exc |-> "ImportError"]
    ELSE [client |-> cl, created |-> 0, exc |-> "-"]

_ensure_connected(cl, fresh) ==
    IF cl.kind = "delivery"
    THEN DeliveryClient_ensure_connected(cl, fresh)
    ELSE OmsClient_ensure_connected(cl, fresh)

\* the exception class each client wraps transport failures in
ServiceError(kind) ==
    IF kind = "delivery" THEN "DeliveryServiceError" ELSE "OmsServiceError"

\* the record of a call in `last`
NoCall == [op |-> "-", client |-> 0, args |-> NoneVal, rpc |-> << >>, code |-> "-",
           outcome |-> "-", value |-> NoneVal, exc |-> "-", created |-> 0,
           pre |-> NoneVal]

Returned(v) == [outcome |-> "return", value |-> v, exc |-> "-"]

Raised(e) == [outcome |-> "raise", value |-> NoneVal, exc |-> e]

\* what the caller saw of the client before the call
Pre(cl) == [tag |-> "pre", _channel |-> cl._channel, _stub |-> cl._stub]

----------------------------------------------------------------------------
(* Initial states *)

\* One client object, just constructed by its caller: the state every
\* per-client property starts from.  Only the bindings of the client's own
\* service matter to it.
Init ==
    /\ \E cl \in {DeliveryClient(tok) : tok \in AuthTokens} \cup {OmsClient} :
          /\ clients = <<cl>>
          /\ bindings \in {b \in [{"delivery", "oms"} -> BindingStates] :
                             \A svc \in {"delivery", "oms"} : svc # cl.kind => b[svc] = "ok"}
    /\ _client = [delivery |-> 0, oms |-> 0]
    /\ channels = << >>
    /\ last = NoCall
    /\ threads = << >>

\* The process after the import of both client modules: no client object
\* yet, both singletons None.
InitRegistry ==
    /\ bindings = [delivery |-> "ok", oms |-> "ok"]
    /\ clients = << >>
    /\ _client = [delivery |-> 0, oms |-> 0]
    /\ channels = << >>
    /\ last = NoCall
    /\ threads = << >>

----------------------------------------------------------------------------
(* The registry *)

\* an accessor that keeps the client it built for a token in the module-level
\* slot
get_delivery_client_caching(tok) ==
    /\ (Truthy(tok) \/ _client.delivery = 0) => Len(clients) < MaxClients
    /\ IF Truthy(tok) \/ _client.delivery = 0
       THEN /\ clients' = Append(clients,
                                 DeliveryClient(IF Truthy(tok) THEN tok ELSE NoneStr))
            /\ _client' = [_client EXCEPT !.delivery = Len(clients) + 1]
       ELSE UNCHANGED <<clients, _client>>
    /\ last' = [NoCall EXCEPT !.op = "get_delivery_client",
                              !.client = _client'.delivery,
                              !.args = [tag |-> "args", auth_token |-> tok],
                              !.outcome = "return",
                              !.pre = [tag |-> "slot", v |-> _client.delivery]]
    /\ UNCHANGED <<bindings, channels, threads>>

\* get_delivery_client(auth_token)
get_delivery_client(tok) ==
    /\ (Truthy(tok) \/ _client.delivery = 0) => Len(clients) < MaxClients
    /\ IF Truthy(tok)
       THEN /\ clients' = Append(clients, DeliveryClient(tok))
            /\ UNCHANGED _client
            /\ last' = [NoCall EXCEPT !.op = "get_delivery_client",
                                      !.client = Len(clients) + 1,
                                      !.args = [tag |-> "args", auth_token |-> tok],
                                      !.outcome = "return",
                                      !.pre = [tag |-> "slot", v |-> _client.delivery]]
       ELSE /\ IF _client.delivery = 0
               THEN /\ clients' = Append(clients, DeliveryClient(NoneStr))
                    /\ _client' = [_client EXCEPT !.delivery = Len(clients) + 1]
               ELSE UNCHANGED <<clients, _client>>
            /\ last' = [NoCall EXCEPT !.op = "get_delivery_client",
                                      !.client = _client'.delivery,
                                      !.args = [tag |-> "args", auth_token |-> tok],
                                      !.outcome = "return",
                                      !.pre = [tag |-> "slot", v |-> _client.delivery]]
    /\ UNCHANGED <<bindings, channels, threads>>

\* an accessor that does not test `_client is None`
get_oms_client_fresh ==
    /\ Len(clients) < MaxClients
    /\ clients' = Append(clients, OmsClient)
    /\ _client' = [_client EXCEPT !.oms = Len(clients) + 1]
    /\ last' = [NoCall EXCEPT !.op = "get_oms_client", !.client = _client'.oms,
                              !.outcome = "return",
                              !.pre = [tag |-> "slot", v |-> _client.oms]]
    /\ UNCHANGED <<bindings, channels, threads>>

\* get_oms_client()
get_oms_client ==
    /\ _client.oms = 0 => Len(clients) < MaxClients
    /\ IF _client.oms = 0
       THEN /\ clients' = Append(clients, OmsClient)
            /\ _client' = [_client EXCEPT !.oms = Len(clients) + 1]
       ELSE UNCHANGED <<clients, _client>>
    /\ last' = [NoCall EXCEPT !.op = "get_oms_client", !.client = _client'.oms,
                              !.outcome = "return",
                              !.pre = [tag |-> "slot", v |-> _client.oms]]
    /\ UNCHANGED <<bindings, channels, threads>>

\* a close() that forgets `self._stub = None`
close_keeps_stub(c) ==
    LET cl == clients[c] IN
    /\ IF cl._channel # 0
       THEN /\ channels' = [channels EXCEPT ![cl._channel].closes = @ + 1]
            /\ clients' = [clients EXCEPT ![c]._channel = 0]
       ELSE UNCHANGED <<channels, clients>>
    /\ last' = [NoCall EXCEPT !.op = "close", !.client = c, !.outcome = "return",
                              !.pre = Pre(cl)]
    /\ UNCHANGED <<bindings, _client, threads>>

\* a close() that closes the channel and keeps the references to it
close_keeps_channel(c) ==
    LET cl == clients[c] IN
    /\ IF cl._channel # 0
       THEN channels' = [channels EXCEPT ![cl._channel].closes = @ + 1]
       ELSE UNCHANGED channels
    /\ last' = [NoCall EXCEPT !.op = "close", !.client = c, !.outcome = "return",
                              !.pre = Pre(cl)]
    /\ UNCHANGED <<bindings, _client, clients, threads>>

\* DeliveryClient.close / OmsClient.close (the two bodies are the same):
\* a channel object is always truthy, so the test is `is not None`
close(c) ==
    LET cl == clients[c] IN
    /\ IF cl._channel # 0
       THEN /\ channels' = [channels EXCEPT ![cl._channel].closes = @ + 1]
            /\ clients' = [clients EXCEPT ![c]._channel = 0, ![c]._stub = 0]
       ELSE UNCHANGED <<channels, clients>>
    /\ last' = [NoCall EXCEPT !.op = "close", !.client = c, !.outcome = "return",
                              !.pre = Pre(cl)]
    /\ UNCHANGED <<bindings, _client, threads>>

----------------------------------------------------------------------------
(* The shape every operation of either client has:                         *)
(*     self._ensure_connected()                                            *)
(*     import <message module>                                             *)
(*     request = ...                                                       *)
(*     try:    response = self._stub.<Method>(request[, metadata=...])     *)
(*             return <conversion of response>                             *)
(*     except grpc.RpcError as e:  <onErr>                                 *)
(* `code` and `response` are what the remote service answers, `onOK` the   *)
(* end of the try body on that response, `onErr` the end of the except     *)
(* clause on that code, `served` what the remote service stored before and *)
(* after serving the call (NoneVal where that is not modelled).            *)

\* an operation that repeats the remote call once when it fails
Operation_retrying(c, op, args, method, request, code, response, onOK, onErr, served) ==
    LET cl == clients[c]
        conn == _ensure_connected(cl, Len(channels) + 1)
        cl2 == conn.client
        chans == IF conn.created # 0
                 THEN Append(channels, [owner |-> c, closes |-> 0])
                 ELSE channels
        reached == /\ conn.exc = "-"
                   /\ MessageModuleImports(cl.kind)
                   /\ cl2._stub # 0
        \* grpc refuses to invoke on a channel that was closed (ValueError)
        invoked == reached /\ chans[cl2._stub].closes = 0
        call == [method |-> method, request |-> request,
                 metadata |-> IF cl.kind = "delivery" THEN _get_metadata(cl2) ELSE << >>,
                 via |-> cl2._stub,
                 response |-> IF code = "OK" THEN response ELSE NoneVal,
                 served |-> IF code = "OK" THEN served ELSE NoneVal]
        result == IF conn.exc # "-" THEN Raised(conn.exc)
                  ELSE IF ~MessageModuleImports(cl.kind) THEN Raised("ImportError")
                  ELSE IF cl2._stub = 0 THEN Raised("AttributeError")
                  ELSE IF ~invoked THEN Raised("ValueError")
                  ELSE IF code = "OK" THEN onOK
                  ELSE onErr
    IN
    /\ clients' = [clients EXCEPT ![c] = cl2]
    /\ channels' = chans
    /\ last' = [op |-> op, client |-> c, args |-> args,
                rpc |-> IF ~invoked THEN << >>
                        ELSE IF code = "OK" THEN <<call>> ELSE <<call, call>>,
                code |-> IF invoked THEN code ELSE "-",
                outcome |-> result.outcome, value |-> result.value, exc |-> result.exc,
                created |-> conn.created, pre |-> Pre(cl)]
    /\ UNCHANGED <<bindings, _client, threads>>

\* an operation that drops its connection when the remote call fails
Operation_resetting(c, op, args, method, request, code, response, onOK, onErr, served) ==
    LET cl == clients[c]
        conn == _ensure_connected(cl, Len(channels) + 1)
        cl2 == conn.client
        chans == IF conn.created # 0
                 THEN Append(channels, [owner |-> c, closes |-> 0])
                 ELSE channels
        reached == /\ conn.exc = "-"
                   /\ MessageModuleImports(cl.kind)
                   /\ cl2._stub # 0
        \* grpc refuses to invoke on a channel that was closed (ValueError)
        invoked == reached /\ chans[cl2._stub].closes = 0
        call == [method |-> method, request |-> request,
                 metadata |-> IF cl.kind = "delivery" THEN _get_metadata(cl2) ELSE << >>,
                 via |-> cl2._stub,
                 response |-> IF code = "OK" THEN response ELSE NoneVal,
                 served |-> IF code = "OK" THEN served ELSE NoneVal]
        result == IF conn.exc # "-" THEN Raised(conn.exc)
                  ELSE IF ~MessageModuleImports(cl.kind) THEN Raised("ImportError")
                  ELSE IF cl2._stub = 0 THEN Raised("AttributeError")
                  ELSE IF ~invoked THEN Raised("ValueError")
                  ELSE IF code = "OK" THEN onOK
                  ELSE onErr
    IN
    /\ clients' = [clients EXCEPT ![c] =
                      IF invoked /\ code # "OK"
                      THEN [cl2 EXCEPT !._channel = 0, !._stub = 0] ELSE cl2]
    /\ channels' = chans
    /\ last' = [op |-> op, client |-> c, args |-> args,
                rpc |-> IF invoked THEN <<call>> ELSE << >>,
                code |-> IF invoked THEN code ELSE "-",
                outcome |-> result.outcome, value |-> result.value, exc |-> result.exc,
                created |-> conn.created, pre |-> Pre(cl)]
    /\ UNCHANGED <<bindings, _client, threads>>

\* the steps of every public operation, on client c of the client objects
\* cls: _ensure_connected, the import of the messages, the request, the
\* call through the stub and the except clause
OperationOn(cls, c, op, args, method, request, code, response, onOK, onErr, served) ==
    LET cl == cls[c]
        conn == _ensure_connected(cl, Len(channels) + 1)
        cl2 == conn.client
        chans == IF conn.created # 0
                 THEN Append(channels, [owner |-> c, closes |-> 0])
                 ELSE channels
        reached == /\ conn.exc = "-"
                   /\ MessageModuleImports(cl.kind)
                   /\ cl2._stub # 0
        \* grpc refuses to invoke on a channel that was closed (ValueError)
        invoked == reached /\ chans[cl2._stub].closes = 0
        call == [method |-> method, request |-> request,
                 metadata |-> IF cl.kind = "delivery" THEN _get_metadata(cl2) ELSE << >>,
                 via |-> cl2._stub,
                 response |-> IF code = "OK" THEN response ELSE NoneVal,
                 served |-> IF code = "OK" THEN served ELSE NoneVal]
        result == IF conn.exc # "-" THEN Raised(conn.exc)
                  ELSE IF ~MessageModuleImports(cl.kind) THEN Raised("ImportError")
                  ELSE IF cl2._stub = 0 THEN Raised("AttributeError")
                  ELSE IF ~invoked THEN Raised("ValueError")
                  ELSE IF code = "OK" THEN onOK
                  ELSE onErr
    IN
    /\ clients' = [cls EXCEPT ![c] = cl2]
    /\ channels' = chans
    /\ last' = [op |-> op, client |-> c, args |-> args,
                rpc |-> IF invoked THEN <<call>> ELSE << >>,
                code |-> IF invoked THEN code ELSE "-",
                outcome |-> result.outcome, value |-> result.value, exc |-> result.exc,
                created |-> conn.created, pre |-> Pre(cl)]
    /\ UNCHANGED <<bindings, threads>>

\* a public operation called on client c
Operation(c, op, args, method, request, code, response, onOK, onErr, served) ==
    /\ OperationOn(clients, c, op, args, method, request, code, response,
                   onOK, onErr, served)
    /\ UNCHANGED _client

\* the responses to draw for a code: a failed call carries no response
Answers(code, responses) ==
    IF code = "OK" THEN responses ELSE {CHOOSE r \in responses : TRUE}

\* the clients a call can be made on with at most `bound` channels opened
Callable(kind, bound) ==
    {c \in 1 .. Len(clients) :
        /\ clients[c].kind = kind
        /\ clients[c]._channel = 0 => Len(channels) < bound}

----------------------------------------------------------------------------
(* Sub-message fields of a wire message *)

\* a sub-message field the sender did not set: reading it gives a message
\* of default values
Absent(default) == [present |-> FALSE, v |-> default]
\* a sub-message field the sender set
Present(x) == [present |-> TRUE, v |-> x]
OptionalField(default, values) == {Absent(default)} \cup {Present(x) : x \in values}

\* message.HasField("<field>")
HasField(f) == f.present

\* a protobuf message object is truthy whether or not the field holding it
\* was set; reading an unset sub-message gives its default values
MessageTruthy(m) == TRUE

\* the default instance of each sub-message type, read from a field that is
\* not set
Defaults ==
    [Timestamp |-> [seconds |-> 0],
     WorkHours |-> [start_time |-> "", end_time |-> "", work_days |-> << >>],
     Location |-> [latitude |-> 0, longitude |-> 0],
     Address |-> [street |-> "", city |-> "", postal_code |-> "", country |-> "",
                  latitude |-> 0, longitude |-> 0]]

\* one set value of each sub-message type
Samples ==
    [Timestamp |-> [seconds |-> 1700000000],
     WorkHours |-> [start_time |-> "09:00", end_time |-> "18:00",
                    work_days |-> <<1, 2, 3, 4, 5>>],
     Location |-> [latitude |-> 52, longitude |-> 13],
     Address |-> [street |-> "s1", city |-> "Berlin", postal_code |-> "10115",
                  country |-> "DE", latitude |-> 52, longitude |-> 13]]

\* Timestamp.ToDatetime(): the datetime that many seconds after the epoch
ToDatetime(ts) == [tag |-> "datetime", epoch_seconds |-> ts.seconds]

\* the dataclasses built from sub-messages, field by field
WorkHours(wh) ==
    [tag |-> "WorkHours", start_time |-> wh.start_time, end_time |-> wh.end_time,
     work_days |-> wh.work_days]
Location(loc) ==
    [tag |-> "Location", latitude |-> loc.latitude, longitude |-> loc.longitude]
Address(pa) ==
    [tag |-> "Address", street |-> pa.street, city |-> pa.city,
     postal_code |-> pa.postal_code, country |-> pa.country,
     latitude |-> pa.latitude, longitude |-> pa.longitude]

----------------------------------------------------------------------------
(* Delivery: lookups *)

CourierIds == {"c1"}

\* the wire Courier messages a response may carry: every enum integer, the
\* sub-messages set
ProtoCouriers(id) ==
    [courier_id : {id},
     transport_type : WireInts(TRANSPORT_TYPES),
     status : WireInts(COURIER_STATUSES),
     work_hours : {Present(Samples.WorkHours)},
     current_location : {Present(Samples.Location)},
     created_at : {Present(Samples.Timestamp)},
     last_active_at : {Present(Samples.Timestamp)}]

\* the wire Courier messages with each sub-message set or not set
PartialCouriers(id) ==
    [courier_id : {id},
     transport_type : {2},
     status : {2},
     work_hours : OptionalField(Defaults.WorkHours, {Samples.WorkHours}),
     current_location : OptionalField(Defaults.Location, {Samples.Location}),
     created_at : OptionalField(Defaults.Timestamp, {Samples.Timestamp}),
     last_active_at : OptionalField(Defaults.Timestamp, {Samples.Timestamp})]

\* DeliveryClient._proto_to_courier
_proto_to_courier(pc) ==
    [tag |-> "Courier",
     courier_id |-> pc.courier_id,
     transport_type |-> DictGet(TRANSPORT_TYPES, pc.transport_type, "UNSPECIFIED"),
     status |-> DictGet(COURIER_STATUSES, pc.status, "UNSPECIFIED"),
     work_hours |-> IF MessageTruthy(pc.work_hours)
                    THEN WorkHours(pc.work_hours.v) ELSE NoneVal,
     current_location |-> IF HasField(pc.current_location)
                          THEN Location(pc.current_location.v) ELSE NoneVal,
     created_at |-> IF MessageTruthy(pc.created_at)
                    THEN ToDatetime(pc.created_at.v) ELSE NoneVal,
     last_active_at |-> IF HasField(pc.last_active_at)
                        THEN ToDatetime(pc.last_active_at.v) ELSE NoneVal]

\* the except clause of a lookup: NOT_FOUND is the absent value
get_courier_except(code) ==
    IF code = "NOT_FOUND" THEN Returned(NoneVal) ELSE Raised("DeliveryServiceError")

\* DeliveryClient.get_courier
get_courier(c, courier_id, include_location, codes, protos) ==
    \E code \in codes : \E pc \in Answers(code, protos) :
        Operation(c, "get_courier",
                  [tag |-> "args", courier_id |-> courier_id,
                   include_location |-> include_location],
                  "GetCourier",
                  [courier_id |-> courier_id, include_location |-> include_location],
                  code, [courier |-> pc],
                  Returned(_proto_to_courier(pc)),
                  get_courier_except(code),
                  NoneVal)

\* the wire DeliveryRecord messages a response may carry
ProtoDeliveries ==
    [package_id : {"pk1"}, order_id : {"o1"},
     status : WireInts(PACKAGE_STATUSES),
     priority : WireInts(PRIORITIES),
     pickup_address : {Present(Samples.Address)},
     delivery_address : {Present(Samples.Address)},
     assigned_at : {Present(Samples.Timestamp)},
     delivered_at : {Absent(Defaults.Timestamp)}]

\* the wire DeliveryRecord messages with each sub-message set or not set
PartialDeliveries ==
    [package_id : {"pk1"}, order_id : {"o1"},
     status : {1},
     priority : {1},
     pickup_address : OptionalField(Defaults.Address, {Samples.Address}),
     delivery_address : OptionalField(Defaults.Address, {Samples.Address}),
     assigned_at : OptionalField(Defaults.Timestamp, {Samples.Timestamp}),
     delivered_at : OptionalField(Defaults.Timestamp, {Samples.Timestamp})]

\* the DeliveryRecord built in the loop of get_courier_deliveries
_proto_to_delivery(pd) ==
    [tag |-> "DeliveryRecord",
     package_id |-> pd.package_id,
     order_id |-> pd.order_id,
     status |-> DictGet(PACKAGE_STATUSES, pd.status, "UNSPECIFIED"),
     pickup_address |-> IF HasField(pd.pickup_address)
                        THEN Address(pd.pickup_address.v) ELSE NoneVal,
     delivery_address |-> IF HasField(pd.delivery_address)
                          THEN Address(pd.delivery_address.v) ELSE NoneVal,
     assigned_at |-> IF HasField(pd.assigned_at)
                     THEN ToDatetime(pd.assigned_at.v) ELSE NoneVal,
     delivered_at |-> IF HasField(pd.delivered_at)
                      THEN ToDatetime(pd.delivered_at.v) ELSE NoneVal,
     priority |-> DictGet(PRIORITIES, pd.priority, "UNSPECIFIED")]

\* [f(x) for x in xs]
RECURSIVE MapDeliveries(_)
MapDeliveries(xs) ==
    IF xs = << >> THEN << >>
    ELSE <<_proto_to_delivery(Head(xs))>> \o MapDeliveries(Tail(xs))

RECURSIVE MapCouriers(_)
MapCouriers(xs) ==
    IF xs = << >> THEN << >>
    ELSE <<_proto_to_courier(Head(xs))>> \o MapCouriers(Tail(xs))

CourierDeliveriesResult(deliveries, total_count) ==
    [tag |-> "CourierDeliveriesResult", deliveries |-> deliveries,
     total_count |-> total_count]

\* an except clause that answers NOT_FOUND as a lookup of one object does
get_courier_deliveries_except_absent(code) ==
    IF code = "NOT_FOUND" THEN Returned(NoneVal) ELSE Raised("DeliveryServiceError")

get_courier_deliveries_except(code) ==
    IF code = "NOT_FOUND"
    THEN Returned(CourierDeliveriesResult(<< >>, 0))
    ELSE Raised("DeliveryServiceError")

\* DeliveryClient.get_courier_deliveries
get_courier_deliveries(c, courier_id, limit, codes, responses) ==
    \E code \in codes : \E r \in Answers(code, responses) :
        Operation(c, "get_courier_deliveries",
                  [tag |-> "args", courier_id |-> courier_id, limit |-> limit],
                  "GetCourierDeliveries",
                  [courier_id |-> courier_id, limit |-> limit],
                  code, r,
                  Returned(CourierDeliveriesResult(MapDeliveries(r.deliveries),
                                                   r.total_count)),
                  get_courier_deliveries_except(code),
                  NoneVal)

----------------------------------------------------------------------------
(* Delivery: the courier pool *)

\* an Optional[list[str]] argument
NoneList == [tag |-> "None"]
ListOf(xs) == [tag |-> "list", v |-> xs]

\* a loop that encodes a token without an entry as 0 instead of skipping it
RECURSIVE EncodeTokens_defaulting(_, _)
EncodeTokens_defaulting(xs, table) ==
    IF xs = << >> THEN << >>
    ELSE <<DictGet(table, Head(xs), 0)>> \o EncodeTokens_defaulting(Tail(xs), table)

\* the loop `for x in filter: if x in table: values.append(table[x])`
RECURSIVE EncodeTokens(_, _)
EncodeTokens(xs, table) ==
    IF xs = << >> THEN << >>
    ELSE (IF Head(xs) \in DOMAIN table THEN <<table[Head(xs)]>> ELSE << >>)
            \o EncodeTokens(Tail(xs), table)

\* `if filter:` is false for None and for the empty list
EncodeFilter(filter, table) ==
    IF filter.tag = "None" THEN << >> ELSE EncodeTokens(filter.v, table)

NoPagination == [present |-> FALSE, current_page |-> 0, page_size |-> 0, total_pages |-> 0]

CourierPoolResult(couriers, total_count, current_page, page_size, total_pages) ==
    [tag |-> "CourierPoolResult", couriers |-> couriers, total_count |-> total_count,
     current_page |-> current_page, page_size |-> page_size,
     total_pages |-> total_pages]

\* the request get_courier_pool builds
GetCourierPoolRequest(a) ==
    [status_filter |-> EncodeFilter(a.status_filter, COURIER_STATUS_VALUES),
     transport_type_filter |-> EncodeFilter(a.transport_type_filter, TRANSPORT_TYPE_VALUES),
     zone_filter |-> IF Truthy(a.zone_filter) THEN a.zone_filter ELSE "",
     available_only |-> a.available_only,
     include_location |-> a.include_location,
     pagination |-> [page |-> a.page, page_size |-> a.page_size]]

\* the result get_courier_pool builds from a response
get_courier_pool_result(a, r) ==
    CourierPoolResult(
        MapCouriers(r.couriers),
        r.total_count,
        IF MessageTruthy(r.pagination) THEN r.pagination.current_page ELSE a.page,
        IF MessageTruthy(r.pagination) THEN r.pagination.page_size ELSE a.page_size,
        IF MessageTruthy(r.pagination) THEN r.pagination.total_pages ELSE 1)

\* DeliveryClient.get_courier_pool; `a` holds the keyword arguments
get_courier_pool(c, a, codes, responses) ==
    \E code \in codes : \E r \in Answers(code, responses) :
        Operation(c, "get_courier_pool", a,
                  "GetCourierPool", GetCourierPoolRequest(a),
                  code, r,
                  Returned(get_courier_pool_result(a, r)),
                  Raised("DeliveryServiceError"),
                  NoneVal)

----------------------------------------------------------------------------
(* Delivery: registration and mutations *)

\* a proto3 optional field of a request: set with a value, or not set
Field(v) == [set |-> TRUE, v |-> v]
UnsetField == [set |-> FALSE, v |-> NoneStr]

\* `if value is not None: request.field = value`
SetIfNotNone(s) == IF s # NoneStr THEN Field(s) ELSE UnsetField

\* `if value: request.field = value`
SetIfTruthy(s) == IF Truthy(s) THEN Field(s) ELSE UnsetField

\* an Optional[float] / Optional[WorkHours] argument
NoneArg == [tag |-> "None"]
FloatArg(x) == [tag |-> "float", v |-> x]
WorkHoursArg(start, end, days) ==
    [tag |-> "WorkHours", start_time |-> start, end_time |-> end, work_days |-> days]

\* delivery_pb2.WorkHours(start_time=..., end_time=..., work_days=...)
ProtoWorkHours(wh) ==
    [start_time |-> wh.start_time, end_time |-> wh.end_time, work_days |-> wh.work_days]

\* the request register_courier builds; `a` holds the arguments
RegisterCourierRequest(a) ==
    [name |-> a.name, phone |-> a.phone, email |-> a.email,
     transport_type |-> DictGet(TRANSPORT_TYPE_VALUES, a.transport_type, 0),
     max_distance_km |-> a.max_distance_km,
     work_zone |-> a.work_zone,
     work_hours |-> ProtoWorkHours(a.work_hours),
     push_token |-> SetIfTruthy(a.push_token)]

\* DeliveryClient.register_courier
register_courier(c, a, codes, responses) ==
    \E code \in codes : \E r \in Answers(code, responses) :
        Operation(c, "register_courier", a,
                  "RegisterCourier", RegisterCourierRequest(a),
                  code, r,
                  Returned([tag |-> "str", v |-> r.courier_id]),
                  Raised("DeliveryServiceError"),
                  NoneVal)

\* DeliveryClient.activate_courier
activate_courier(c, courier_id, codes) ==
    \E code \in codes :
        Operation(c, "activate_courier", [tag |-> "args", courier_id |-> courier_id],
                  "ActivateCourier", [courier_id |-> courier_id],
                  code, NoneVal,
                  Returned(TrueVal),
                  Raised("DeliveryServiceError"),
                  NoneVal)

\* DeliveryClient.deactivate_courier
deactivate_courier(c, courier_id, reason, codes) ==
    \E code \in codes :
        Operation(c, "deactivate_courier",
                  [tag |-> "args", courier_id |-> courier_id, reason |-> reason],
                  "DeactivateCourier",
                  [courier_id |-> courier_id, reason |-> SetIfTruthy(reason)],
                  code, NoneVal,
                  Returned(TrueVal),
                  Raised("DeliveryServiceError"),
                  NoneVal)

\* DeliveryClient.archive_courier
archive_courier(c, courier_id, reason, codes) ==
    \E code \in codes :
        Operation(c, "archive_courier",
                  [tag |-> "args", courier_id |-> courier_id, reason |-> reason],
                  "ArchiveCourier",
                  [courier_id |-> courier_id, reason |-> SetIfTruthy(reason)],
                  code, NoneVal,
                  Returned(TrueVal),
                  Raised("DeliveryServiceError"),
                  NoneVal)

\* the request update_contact_info builds
UpdateContactInfoRequest(a) ==
    [courier_id |-> a.courier_id,
     phone |-> SetIfTruthy(a.phone),
     email |-> SetIfTruthy(a.email),
     push_token |-> SetIfTruthy(a.push_token)]

\* the remote service serving UpdateContactInfo: it overwrites the stored
\* fields that are set in the request and keeps the others
ServeUpdateContactInfo(stored, req) ==
    [phone |-> IF req.phone.set THEN req.phone.v ELSE stored.phone,
     email |-> IF req.email.set THEN req.email.v ELSE stored.email,
     push_token |-> IF req.push_token.set THEN req.push_token.v ELSE stored.push_token]

\* DeliveryClient.update_contact_info; `stored` is what the remote service
\* holds for the courier when the call arrives
update_contact_info(c, a, codes, stores) ==
    \E code \in codes : \E stored \in Answers(code, stores) :
        Operation(c, "update_contact_info", a,
                  "UpdateContactInfo", UpdateContactInfoRequest(a),
                  code, NoneVal,
                  Returned(TrueVal),
                  Raised("DeliveryServiceError"),
                  [before |-> stored,
                   after |-> ServeUpdateContactInfo(stored, UpdateContactInfoRequest(a))])

\* the request update_work_schedule builds: a WorkHours dataclass instance is
\* always truthy, max_distance_km is tested with `is not None`
UpdateWorkScheduleRequest(a) ==
    [courier_id |-> a.courier_id,
     work_hours |-> IF a.work_hours.tag # "None"
                    THEN Field(ProtoWorkHours(a.work_hours)) ELSE UnsetField,
     work_zone |-> SetIfTruthy(a.work_zone),
     max_distance_km |-> IF a.max_distance_km.tag # "None"
                         THEN Field(a.max_distance_km.v) ELSE UnsetField]

\* DeliveryClient.update_work_schedule
update_work_schedule(c, a, codes) ==
    \E code \in codes :
        Operation(c, "update_work_schedule", a,
                  "UpdateWorkSchedule", UpdateWorkScheduleRequest(a),
                  code, NoneVal,
                  Returned(TrueVal),
                  Raised("DeliveryServiceError"),
                  NoneVal)

\* the request change_transport_type builds
ChangeTransportTypeRequest(courier_id, transport_type) ==
    [courier_id |-> courier_id,
     transport_type |-> DictGet(TRANSPORT_TYPE_VALUES, transport_type, 0)]

\* a change_transport_type that answers with the load it expects for the
\* transport type instead of the one the server reports
change_transport_type_recomputing(c, courier_id, transport_type, codes, responses) ==
    \E code \in codes : \E r \in Answers(code, responses) :
        Operation(c, "change_transport_type",
                  [tag |-> "args", courier_id |-> courier_id,
                   transport_type |-> transport_type],
                  "ChangeTransportType",
                  ChangeTransportTypeRequest(courier_id, transport_type),
                  code, r,
                  Returned([tag |-> "int",
                            v |-> DictGet(TRANSPORT_TYPE_VALUES, transport_type, 0)]),
                  Raised("DeliveryServiceError"),
                  NoneVal)

\* DeliveryClient.change_transport_type
change_transport_type(c, courier_id, transport_type, codes, responses) ==
    \E code \in codes : \E r \in Answers(code, responses) :
        Operation(c, "change_transport_type",
                  [tag |-> "args", courier_id |-> courier_id,
                   transport_type |-> transport_type],
                  "ChangeTransportType",
                  ChangeTransportTypeRequest(courier_id, transport_type),
                  code, r,
                  Returned([tag |-> "int", v |-> r.max_load]),
                  Raised("DeliveryServiceError"),
                  NoneVal)

----------------------------------------------------------------------------
(* OMS: lookups *)

OrderIds == {"o1"}

\* OrderStatus(value): the IntEnum constructor raises ValueError for a value
\* that is no member
OrderStatus(v) ==
    IF v \in OrderStatusMembers
    THEN [exc |-> "-", v |-> v]
    ELSE [exc |-> "ValueError", v |-> v]

\* the delivery_period and delivery_info sub-messages of a wire Order
DefaultDeliveryPeriod ==
    [start_time |-> Absent(Defaults.Timestamp), end_time |-> Absent(Defaults.Timestamp)]
DeliveryPeriods ==
    [start_time : OptionalField(Defaults.Timestamp, {Samples.Timestamp}),
     end_time : OptionalField(Defaults.Timestamp, {Samples.Timestamp})]
DefaultDeliveryInfo ==
    [pickup_address |-> Absent(Defaults.Address),
     delivery_address |-> Absent(Defaults.Address),
     delivery_period |-> Absent(DefaultDeliveryPeriod),
     priority |-> 0]
DeliveryInfos ==
    [pickup_address : OptionalField(Defaults.Address, {Samples.Address}),
     delivery_address : OptionalField(Defaults.Address, {Samples.Address}),
     delivery_period : OptionalField(DefaultDeliveryPeriod, DeliveryPeriods),
     priority : {1}]
SampleDeliveryInfo ==
    [pickup_address |-> Present(Samples.Address),
     delivery_address |-> Present(Samples.Address),
     delivery_period |-> Present([start_time |-> Present(Samples.Timestamp),
                                  end_time |-> Present(Samples.Timestamp)]),
     priority |-> 1]

\* the wire Order messages a response may carry: every status integer, the
\* sub-messages set
ProtoOrders(id) ==
    [id : {id}, customer_id : {"u1"}, status : OrderWireInts,
     delivery_info : {Present(SampleDeliveryInfo)},
     created_at : {Present(Samples.Timestamp)},
     updated_at : {Present(Samples.Timestamp)}]

\* the wire Order messages with each sub-message set or not set
PartialOrders(id) ==
    [id : {id}, customer_id : {"u1"}, status : {1},
     delivery_info : OptionalField(DefaultDeliveryInfo, DeliveryInfos),
     created_at : OptionalField(Defaults.Timestamp, {Samples.Timestamp}),
     updated_at : OptionalField(Defaults.Timestamp, {Samples.Timestamp})]

DeliveryAddress(pa) ==
    [tag |-> "DeliveryAddress", street |-> pa.street, city |-> pa.city,
     postal_code |-> pa.postal_code, country |-> pa.country,
     latitude |-> pa.latitude, longitude |-> pa.longitude]

DeliveryPeriod(dp) ==
    [tag |-> "DeliveryPeriod",
     start_time |-> IF HasField(dp.start_time)
                    THEN ToDatetime(dp.start_time.v) ELSE NoneVal,
     end_time |-> IF HasField(dp.end_time)
                  THEN ToDatetime(dp.end_time.v) ELSE NoneVal]

DeliveryInfo(di) ==
    [tag |-> "DeliveryInfo",
     pickup_address |-> IF HasField(di.pickup_address)
                        THEN DeliveryAddress(di.pickup_address.v) ELSE NoneVal,
     delivery_address |-> IF HasField(di.delivery_address)
                          THEN DeliveryAddress(di.delivery_address.v) ELSE NoneVal,
     delivery_period |-> IF HasField(di.delivery_period)
                         THEN DeliveryPeriod(di.delivery_period.v) ELSE NoneVal,
     priority |-> di.priority]

\* OmsClient._proto_to_order, as the end of the try body it is called in
_proto_to_order(po) ==
    LET st == OrderStatus(po.status) IN
    IF st.exc # "-"
    THEN Raised(st.exc)
    ELSE Returned([tag |-> "Order", order_id |-> po.id, customer_id |-> po.customer_id,
                   status |-> st.v,
                   created_at |-> IF HasField(po.created_at)
                                  THEN ToDatetime(po.created_at.v) ELSE NoneVal,
                   updated_at |-> IF HasField(po.updated_at)
                                  THEN ToDatetime(po.updated_at.v) ELSE NoneVal,
                   delivery_info |-> IF HasField(po.delivery_info)
                                     THEN DeliveryInfo(po.delivery_info.v)
                                     ELSE NoneVal])

get_order_except(code) ==
    IF code = "NOT_FOUND" THEN Returned(NoneVal) ELSE Raised("OmsServiceError")

\* OmsClient.get_order
get_order(c, order_id, codes, protos) ==
    \E code \in codes : \E po \in Answers(code, protos) :
        Operation(c, "get_order", [tag |-> "args", order_id |-> order_id],
                  "Get", [id |-> order_id],
                  code, [order |-> po],
                  _proto_to_order(po),
                  get_order_except(code),
                  NoneVal)

----------------------------------------------------------------------------
(* OMS: listing and cancelling *)

\* [self._proto_to_order(o) for o in response.orders]: the first conversion
\* that raises ends the comprehension
RECURSIVE MapOrders(_)
MapOrders(xs) ==
    IF xs = << >> THEN Returned(<< >>)
    ELSE LET h == _proto_to_order(Head(xs))
             t == MapOrders(Tail(xs))
         IN  IF h.outcome = "raise" THEN h
             ELSE IF t.outcome = "raise" THEN t
             ELSE Returned(<<h.value>> \o t.value)

\* [int(s) for s in (status_filter or [])]
OrderFilterValues(filter) == IF filter.tag = "None" THEN << >> ELSE filter.v

ListRequest(a) ==
    [customer_id |-> IF Truthy(a.customer_id) THEN a.customer_id ELSE "",
     status_filter |-> OrderFilterValues(a.status_filter),
     pagination |-> [page |-> a.page, page_size |-> a.page_size]]

OrderListResult(orders, total_count, current_page, page_size, total_pages) ==
    [tag |-> "OrderListResult", orders |-> orders, total_count |-> total_count,
     current_page |-> current_page, page_size |-> page_size,
     total_pages |-> total_pages]

\* the end of the try body of list_orders on response r
list_orders_result(a, r) ==
    LET orders == MapOrders(r.orders) IN
    IF orders.outcome = "raise" THEN orders
    ELSE Returned(OrderListResult(
            orders.value,
            r.total_count,
            IF MessageTruthy(r.pagination) THEN r.pagination.current_page ELSE a.page,
            IF MessageTruthy(r.pagination) THEN r.pagination.page_size ELSE a.page_size,
            IF MessageTruthy(r.pagination) THEN r.pagination.total_pages ELSE 1))

\* OmsClient.list_orders; `a` holds the keyword arguments
list_orders(c, a, codes, responses) ==
    \E code \in codes : \E r \in Answers(code, responses) :
        Operation(c, "list_orders", a,
                  "List", ListRequest(a),
                  code, r,
                  list_orders_result(a, r),
                  Raised("OmsServiceError"),
                  NoneVal)

\* an except clause that does not test for NOT_FOUND
cancel_order_except_generic(code) == Raised("OmsServiceError")

\* the except clause of cancel_order
cancel_order_except(code) ==
    IF code = "NOT_FOUND" THEN Raised("OrderNotFoundError") ELSE Raised("OmsServiceError")

\* OmsClient.cancel_order
cancel_order(c, order_id, codes) ==
    \E code \in codes :
        Operation(c, "cancel_order", [tag |-> "args", order_id |-> order_id],
                  "Cancel", [id |-> order_id],
                  code, NoneVal,
                  Returned(TrueVal),
                  cancel_order_except(code),
                  NoneVal)

----------------------------------------------------------------------------
(* The inputs of the operations and the answers of the remote services *)

\* largest max_load the remote service reports
MaxLoad == 2

TransportTokens == DOMAIN TRANSPORT_TYPE_VALUES \cup {"BOGUS", "car"}

OptionalStrings(v) == {NoneStr, "", v}

WorkWeek == WorkHoursArg("09:00", "18:00", <<1, 2, 3, 4, 5>>)

DeliveriesResponses ==
    {[deliveries |-> ds, total_count |-> n] :
        ds \in {<< >>} \cup {<<d>> : d \in ProtoDeliveries}
               \cup {<<[d EXCEPT !.package_id = "pk2"], d>> :
                        d \in {e \in ProtoDeliveries : e.status = e.priority}},
        n \in {0, 1}}

SampleCourier(id, e) ==
    [courier_id |-> id, transport_type |-> e, status |-> e,
     work_hours |-> Present(Samples.WorkHours),
     current_location |-> Present(Samples.Location),
     created_at |-> Present(Samples.Timestamp),
     last_active_at |-> Present(Samples.Timestamp)]

Paginations ==
    {NoPagination,
     [present |-> TRUE, current_page |-> 1, page_size |-> 20, total_pages |-> 1],
     [present |-> TRUE, current_page |-> 1, page_size |-> 20, total_pages |-> 0]}

PoolArgs ==
    [tag : {"args"},
     status_filter : {NoneList, ListOf(<<"FREE", "BUSY">>), ListOf(<<"BOGUS", "FREE">>),
                      ListOf(<<"UNSPECIFIED", "UNAVAILABLE", "ARCHIVED">>)},
     transport_type_filter : {NoneList, ListOf(<<"CAR">>), ListOf(<<"car", "BICYCLE">>)},
     zone_filter : {NoneStr},
     available_only : {FALSE},
     include_location : {TRUE},
     page : {2},
     page_size : {50}]

PoolResponses ==
    [couriers : {<< >>, <<SampleCourier("c1", 2)>>,
                 <<SampleCourier("c1", 2),
                   SampleCourier("c2", MaxKey(COURIER_STATUSES) + 1)>>},
     total_count : {0, 2},
     pagination : Paginations]

RegisterArgs ==
    [tag : {"args"}, name : {"n"}, phone : {"p1"}, email : {"e1"},
     transport_type : TransportTokens,
     max_distance_km : {10},
     work_zone : {"z1"},
     work_hours : {WorkWeek},
     push_token : {NoneStr, "k1"}]

RegisterResponses == [courier_id : {"c2"}]

ContactArgs ==
    [tag : {"args"}, courier_id : CourierIds,
     phone : OptionalStrings("p1"),
     email : OptionalStrings("e1"),
     push_token : OptionalStrings("k1")]

\* what the remote service holds for the courier
Stores == [phone : {"p0"}, email : {"e0"}, push_token : {"k0"}]

ScheduleArgs ==
    [tag : {"args"}, courier_id : CourierIds,
     work_hours : {NoneArg, WorkWeek},
     work_zone : OptionalStrings("z1"),
     max_distance_km : {NoneArg, FloatArg(0), FloatArg(10)}]

TransportResponses == [max_load : 0 .. MaxLoad]

SampleOrder(id, st) ==
    [id |-> id, customer_id |-> "u1", status |-> st,
     delivery_info |-> Present(SampleDeliveryInfo),
     created_at |-> Present(Samples.Timestamp),
     updated_at |-> Present(Samples.Timestamp)]

ListArgs ==
    [tag : {"args"},
     customer_id : {NoneStr, "u1"},
     status_filter : {NoneList, ListOf(<<1, 2>>)},
     page : {2},
     page_size : {50}]

ListResponses ==
    [orders : {<< >>, <<SampleOrder("o1", 1)>>,
               <<SampleOrder("o1", 1), SampleOrder("o2", 4 + UnmappedWire)>>},
     total_count : {0, 2},
     pagination : Paginations]

\* one input and one answer per operation, for the specifications that are
\* about the connection and not about the data
SampleCodes == {"OK", "NOT_FOUND", "UNAVAILABLE"}

SamplePoolArgs ==
    {a \in PoolArgs : a.status_filter = NoneList /\ a.transport_type_filter = NoneList}

SamplePoolResponses ==
    {r \in PoolResponses : /\ Len(r.couriers) = 1 /\ r.total_count = 2
                          /\ r.pagination.present /\ r.pagination.total_pages = 1}

SampleRegisterArgs ==
    {a \in RegisterArgs : a.transport_type = "BICYCLE" /\ a.push_token = NoneStr}

SampleContactArgs ==
    {a \in ContactArgs : a.phone = "p1" /\ a.email = NoneStr /\ a.push_token = NoneStr}

SampleScheduleArgs ==
    {a \in ScheduleArgs : /\ a.work_hours = NoneArg /\ a.work_zone = "z1"
                          /\ a.max_distance_km = NoneArg}

SampleListArgs ==
    {a \in ListArgs : a.customer_id = NoneStr /\ a.status_filter = NoneList}

SampleListResponses ==
    {r \in ListResponses : /\ Len(r.orders) = 1 /\ r.total_count = 2
                          /\ r.pagination.present /\ r.pagination.total_pages = 1}

----------------------------------------------------------------------------
(* The client specification: one client object under every state of the    *)
(* generated bindings, every operation and close() in any order; the       *)
(* inputs and the remote answers are drawn from the samples.               *)

Next ==
    \/ \E c \in 1 .. Len(clients) : close(c)
    \/ \E c \in Callable("delivery", MaxChannels), id \in CourierIds, loc \in BOOLEAN :
          get_courier(c, id, loc, SampleCodes, {SampleCourier(id, 2)})
    \/ \E c \in Callable("delivery", MaxChannels), id \in CourierIds :
          get_courier_deliveries(c, id, 5, SampleCodes,
                                 {[deliveries |-> << >>, total_count |-> 0]})
    \/ \E c \in Callable("delivery", MaxChannels), a \in SamplePoolArgs :
          get_courier_pool(c, a, SampleCodes, SamplePoolResponses)
    \/ \E c \in Callable("delivery", MaxChannels), a \in SampleRegisterArgs :
          register_courier(c, a, SampleCodes, RegisterResponses)
    \/ \E c \in Callable("delivery", MaxChannels), id \in CourierIds :
          activate_courier(c, id, SampleCodes)
    \/ \E c \in Callable("delivery", MaxChannels), id \in CourierIds :
          deactivate_courier(c, id, "r", SampleCodes)
    \/ \E c \in Callable("delivery", MaxChannels), id \in CourierIds :
          archive_courier(c, id, NoneStr, SampleCodes)
    \/ \E c \in Callable("delivery", MaxChannels), a \in SampleContactArgs :
          update_contact_info(c, a, SampleCodes, Stores)
    \/ \E c \in Callable("delivery", MaxChannels), a \in SampleScheduleArgs :
          update_work_schedule(c, a, SampleCodes)
    \/ \E c \in Callable("delivery", MaxChannels), id \in CourierIds :
          change_transport_type(c, id, "CAR", SampleCodes, {[max_load |-> MaxLoad]})
    \/ \E c \in Callable("oms", MaxChannels), id \in OrderIds :
          get_order(c, id, SampleCodes, {SampleOrder(id, 1)})
    \/ \E c \in Callable("oms", MaxChannels), a \in SampleListArgs :
          list_orders(c, a, SampleCodes, SampleListResponses)
    \/ \E c \in Callable("oms", MaxChannels), id \in OrderIds :
          cancel_order(c, id, SampleCodes)

Spec == Init /\ [][Next]_vars

----------------------------------------------------------------------------
(* The data specification: one client object whose bindings load, every    *)
(* operation with every input and every remote answer of the sets above.   *)

InitData ==
    /\ Init
    /\ bindings = [delivery |-> "ok", oms |-> "ok"]
    /\ clients[1]._auth_token = NoneStr

NextData ==
    \/ \E c \in Callable("delivery", MaxChannels), id \in CourierIds :
          get_courier(c, id, TRUE, StatusCodes, ProtoCouriers(id))
    \/ \E c \in Callable("delivery", MaxChannels), id \in CourierIds :
          get_courier_deliveries(c, id, 5, StatusCodes, DeliveriesResponses)
    \/ \E c \in Callable("delivery", MaxChannels), a \in PoolArgs :
          get_courier_pool(c, a, StatusCodes, PoolResponses)
    \/ \E c \in Callable("delivery", MaxChannels), a \in RegisterArgs :
          register_courier(c, a, StatusCodes, RegisterResponses)
    \/ \E c \in Callable("delivery", MaxChannels), id \in CourierIds :
          activate_courier(c, id, StatusCodes)
    \/ \E c \in Callable("delivery", MaxChannels), id \in CourierIds,
          reason \in OptionalStrings("r") :
          deactivate_courier(c, id, reason, StatusCodes)
    \/ \E c \in Callable("delivery", MaxChannels), id \in CourierIds,
          reason \in OptionalStrings("r") :
          archive_courier(c, id, reason, StatusCodes)
    \/ \E c \in Callable("delivery", MaxChannels), a \in ContactArgs :
          update_contact_info(c, a, StatusCodes, Stores)
    \/ \E c \in Callable("delivery", MaxChannels), a \in ScheduleArgs :
          update_work_schedule(c, a, StatusCodes)
    \/ \E c \in Callable("delivery", MaxChannels), id \in CourierIds,
          t \in TransportTokens :
          change_transport_type(c, id, t, StatusCodes, TransportResponses)
    \/ \E c \in Callable("oms", MaxChannels), id \in OrderIds :
          get_order(c, id, StatusCodes, ProtoOrders(id))
    \/ \E c \in Callable("oms", MaxChannels), a \in ListArgs :
          list_orders(c, a, StatusCodes, ListResponses)
    \/ \E c \in Callable("oms", MaxChannels), id \in OrderIds :
          cancel_order(c, id, StatusCodes)

SpecData == InitData /\ [][NextData]_vars

----------------------------------------------------------------------------
(* The registry specification: the module-level singletons, the clients    *)
(* obtained from the registry used and closed in any order.                *)

NextRegistry ==
    \/ \E tok \in AuthTokens : get_delivery_client(tok)
    \/ get_oms_client
    \/ \E c \in 1 .. Len(clients) : close(c)
    \/ \E c \in Callable("delivery", MaxSharedChannels), id \in CourierIds :
          get_courier(c, id, FALSE, {"OK", "UNAVAILABLE"}, {SampleCourier(id, 2)})
    \/ \E c \in Callable("oms", MaxSharedChannels), id \in OrderIds :
          get_order(c, id, {"OK", "UNAVAILABLE"}, {SampleOrder(id, 1)})

SpecRegistry == InitRegistry /\ [][NextRegistry]_vars

----------------------------------------------------------------------------
(* The race specification: several callers make their first use of one     *)
(* client object at the same time.  Neither client guards _ensure_connected *)
(* with a lock, so the callers interleave between its statements:          *)
(*     if self._channel is None:                            test           *)
(*         self._channel = grpc.insecure_channel(self.host) open, assign   *)
(*         import <stub module>                             import         *)
(*         self._stub = <Stub>(self._channel)               read, assign   *)
(* When all of them have left it, one caller closes the client.            *)

ThreadIds == 1 .. MaxThreads

\* a caller entering _ensure_connected: `channel` is the channel it opened,
\* `arg` the channel it read to construct the stub on
EnteringThread == [pc |-> "test", channel |-> 0, arg |-> 0, exc |-> "-"]

InitRace ==
    /\ \E cl \in {DeliveryClient(NoneStr), OmsClient} :
          /\ clients = <<cl>>
          /\ bindings \in {b \in [{"delivery", "oms"} -> BindingStates] :
                             \A svc \in {"delivery", "oms"} : svc # cl.kind => b[svc] = "ok"}
    /\ _client = [delivery |-> 0, oms |-> 0]
    /\ channels = << >>
    /\ last = NoCall
    /\ threads = [t \in ThreadIds |-> EnteringThread]

\* `if self._channel is None:`
ensure_test(t) ==
    /\ threads[t].pc = "test"
    /\ threads' = [threads EXCEPT ![t].pc =
                        IF clients[1]._channel = 0 THEN "open" ELSE "done"]
    /\ UNCHANGED <<bindings, clients, _client, channels, last>>

\* grpc.insecure_channel(self.host)
ensure_open(t) ==
    /\ threads[t].pc = "open"
    /\ channels' = Append(channels, [owner |-> 1, closes |-> 0])
    /\ threads' = [threads EXCEPT ![t].pc = "assign_channel",
                                  ![t].channel = Len(channels) + 1]
    /\ UNCHANGED <<bindings, clients, _client, last>>

\* self._channel = <the channel opened>
ensure_assign_channel(t) ==
    /\ threads[t].pc = "assign_channel"
    /\ clients' = [clients EXCEPT ![1]._channel = threads[t].channel]
    /\ threads' = [threads EXCEPT ![t].pc = "import"]
    /\ UNCHANGED <<bindings, _client, channels, last>>

\* the import of the stub module: DeliveryClient turns its ImportError into
\* DeliveryServiceError, OmsClient lets it propagate
ensure_import(t) ==
    /\ threads[t].pc = "import"
    /\ threads' = [threads EXCEPT
                      ![t].pc = IF StubModuleImports(clients[1].kind)
                                THEN "read_channel" ELSE "raised",
                      ![t].exc = IF StubModuleImports(clients[1].kind) THEN "-"
                                 ELSE IF clients[1].kind = "delivery"
                                      THEN "DeliveryServiceError" ELSE "ImportError"]
    /\ UNCHANGED <<bindings, clients, _client, channels, last>>

\* the argument of the stub constructor: self._channel as it is now
ensure_read_channel(t) ==
    /\ threads[t].pc = "read_channel"
    /\ threads' = [threads EXCEPT ![t].pc = "assign_stub",
                                  ![t].arg = clients[1]._channel]
    /\ UNCHANGED <<bindings, clients, _client, channels, last>>

\* self._stub = <the stub constructed>
ensure_assign_stub(t) ==
    /\ threads[t].pc = "assign_stub"
    /\ clients' = [clients EXCEPT ![1]._stub = threads[t].arg]
    /\ threads' = [threads EXCEPT ![t].pc = "done"]
    /\ UNCHANGED <<bindings, _client, channels, last>>

\* every caller has left _ensure_connected, by returning or by raising
RaceFinished ==
    threads # << >> /\ \A t \in DOMAIN threads : threads[t].pc \in {"done", "raised"}

NextRace ==
    \/ \E t \in ThreadIds : ensure_test(t)
    \/ \E t \in ThreadIds : ensure_open(t)
    \/ \E t \in ThreadIds : ensure_assign_channel(t)
    \/ \E t \in ThreadIds : ensure_import(t)
    \/ \E t \in ThreadIds : ensure_read_channel(t)
    \/ \E t \in ThreadIds : ensure_assign_stub(t)
    \/ (RaceFinished /\ last = NoCall /\ close(1))

SpecRace == InitRace /\ [][NextRace]_vars

----------------------------------------------------------------------------
(* Vocabulary of the properties *)

DeliveryOps ==
    {"get_courier", "get_courier_deliveries", "get_courier_pool", "register_courier",
     "activate_courier", "deactivate_courier", "archive_courier",
     "update_contact_info", "update_work_schedule", "change_transport_type"}

OmsOps == {"get_order", "list_orders", "cancel_order"}

\* the last call was an operation of a client
IsOperation == last.op \in DeliveryOps \cup OmsOps

\* the last call reached the remote service
RemoteCalled == IsOperation /\ Len(last.rpc) = 1

LastKind == clients[last.client].kind

RaisedServiceError ==
    last.outcome = "raise" /\ IsInstance(last.exc, ServiceError(LastKind))

\* the message the remote service answered a served call with
LastResponse == last.rpc[1].response

\* the request the last call transmitted
LastRequest == last.rpc[1].request

----------------------------------------------------------------------------
(* C1: get_courier and get_order return None when the remote call fails    *)
(* with NOT_FOUND, raise the client's service error when it fails with any *)
(* other status, and return the converted domain object (a Courier / an    *)
(* Order carrying the id of the message answered) when it succeeds.         *)
C1_LookupOutcomes ==
    (RemoteCalled /\ last.op \in {"get_courier", "get_order"}) =>
        /\ last.code = "NOT_FOUND" =>
              last.outcome = "return" /\ last.value.tag = "None"
        /\ last.code \notin {"OK", "NOT_FOUND"} => RaisedServiceError
        /\ (last.code = "OK" /\ last.op = "get_courier") =>
              /\ last.outcome = "return"
              /\ last.value.tag = "Courier"
              /\ last.value.courier_id = LastResponse.courier.courier_id
        /\ (last.code = "OK" /\ last.op = "get_order") =>
              /\ last.outcome = "return"
              /\ last.value.tag = "Order"
              /\ last.value.order_id = LastResponse.order.id

(* C2: whatever the remote service answers, an operation of either client  *)
(* that raises raises that client's service error kind; no other exception *)
(* type escapes.                                                            *)
C2_OnlyServiceErrorsEscape ==
    (RemoteCalled /\ last.outcome = "raise") => RaisedServiceError

(* C3: when the generated bindings of a client's service cannot be loaded, *)
(* every operation on it, first or later, raises the client's service      *)
(* error kind.                                                              *)
C3_BindingsFailureIsServiceError ==
    (IsOperation /\ bindings[LastKind] # "ok") => RaisedServiceError

(* C4: a response carrying a wire integer that is in none of the five enum *)
(* tables is converted without raising, and the domain object carries the  *)
(* UNSPECIFIED sentinel for it.                                             *)
C4_UnknownWireIsSentinel ==
    (RemoteCalled /\ last.code = "OK") =>
        /\ last.op = "get_courier" =>
              /\ last.outcome = "return"
              /\ LastResponse.courier.transport_type \notin DOMAIN TRANSPORT_TYPES =>
                    last.value.transport_type = "UNSPECIFIED"
              /\ LastResponse.courier.status \notin DOMAIN COURIER_STATUSES =>
                    last.value.status = "UNSPECIFIED"
        /\ last.op = "get_courier_pool" =>
              /\ last.outcome = "return"
              /\ \A i \in 1 .. Len(LastResponse.couriers) :
                    /\ LastResponse.couriers[i].transport_type \notin DOMAIN TRANSPORT_TYPES =>
                          last.value.couriers[i].transport_type = "UNSPECIFIED"
                    /\ LastResponse.couriers[i].status \notin DOMAIN COURIER_STATUSES =>
                          last.value.couriers[i].status = "UNSPECIFIED"
        /\ last.op = "get_courier_deliveries" =>
              /\ last.outcome = "return"
              /\ \A i \in 1 .. Len(LastResponse.deliveries) :
                    /\ LastResponse.deliveries[i].status \notin DOMAIN PACKAGE_STATUSES =>
                          last.value.deliveries[i].status = "UNSPECIFIED"
                    /\ LastResponse.deliveries[i].priority \notin DOMAIN PRIORITIES =>
                          last.value.deliveries[i].priority = "UNSPECIFIED"
        /\ last.op = "get_order" =>
              /\ last.outcome = "return"
              /\ LastResponse.order.status \notin OrderStatusMembers =>
                    last.value.status = 0
        /\ last.op = "list_orders" =>
              /\ last.outcome = "return"
              /\ \A i \in 1 .. Len(LastResponse.orders) :
                    LastResponse.orders[i].status \notin OrderStatusMembers =>
                        last.value.orders[i].status = 0

----------------------------------------------------------------------------
(* Round trips of the enum tables *)

\* the tokens of xs that have an entry in table, in order
RECURSIVE KnownTokens(_, _)
KnownTokens(xs, table) ==
    IF xs = << >> THEN << >>
    ELSE (IF Head(xs) \in DOMAIN table THEN <<Head(xs)>> ELSE << >>)
            \o KnownTokens(Tail(xs), table)

\* decoding each wire integer of ws with the table dec
DecodeAll(ws, dec) == [i \in 1 .. Len(ws) |-> DictGet(dec, ws[i], "UNSPECIFIED")]

\* enc and dec are inverse bijections between domain strings and wire integers
MutualInverses(enc, dec) ==
    /\ \A s \in DOMAIN enc : enc[s] \in DOMAIN dec /\ dec[enc[s]] = s
    /\ \A w \in DOMAIN dec : dec[w] \in DOMAIN enc /\ enc[dec[w]] = w

(* C5: the encode and decode tables of transport type and courier status   *)
(* are mutual inverses.  Every domain string an operation encodes into a   *)
(* request (change_transport_type, register_courier, the two filters of    *)
(* get_courier_pool) decodes back to the same string, and every wire        *)
(* integer of the tables that get_courier decodes encodes back to the same *)
(* integer.                                                                 *)
C5_TablesRoundTrip ==
    /\ MutualInverses(TRANSPORT_TYPE_VALUES, TRANSPORT_TYPES)
    /\ MutualInverses(COURIER_STATUS_VALUES, COURIER_STATUSES)
    /\ (RemoteCalled /\ last.op \in {"change_transport_type", "register_courier"}
            /\ last.args.transport_type \in DOMAIN TRANSPORT_TYPE_VALUES) =>
          DictGet(TRANSPORT_TYPES, LastRequest.transport_type, "UNSPECIFIED")
             = last.args.transport_type
    /\ (RemoteCalled /\ last.op = "get_courier_pool") =>
          /\ last.args.status_filter.tag = "list" =>
                DecodeAll(LastRequest.status_filter, COURIER_STATUSES)
                   = KnownTokens(last.args.status_filter.v, COURIER_STATUS_VALUES)
          /\ last.args.transport_type_filter.tag = "list" =>
                DecodeAll(LastRequest.transport_type_filter, TRANSPORT_TYPES)
                   = KnownTokens(last.args.transport_type_filter.v, TRANSPORT_TYPE_VALUES)
    /\ (RemoteCalled /\ last.op = "get_courier" /\ last.code = "OK") =>
          /\ LastResponse.courier.transport_type \in DOMAIN TRANSPORT_TYPES =>
                DictGet(TRANSPORT_TYPE_VALUES, last.value.transport_type, 0)
                   = LastResponse.courier.transport_type
          /\ LastResponse.courier.status \in DOMAIN COURIER_STATUSES =>
                DictGet(COURIER_STATUS_VALUES, last.value.status, 0)
                   = LastResponse.courier.status

\* get_courier has decoded the last entries of both tables
C5_Witness ==
    /\ RemoteCalled /\ last.op = "get_courier" /\ last.code = "OK"
    /\ LastResponse.courier.transport_type = 4 /\ last.value.transport_type = "CAR"
    /\ LastResponse.courier.status = 3 /\ last.value.status = "BUSY"

----------------------------------------------------------------------------
(* Partial updates *)

ContactFields == {"phone", "email", "push_token"}

\* the remote service stored the contact fields of `given` as the caller gave
\* them and kept the others
StoredOnlyGiven(given) ==
    LET served == last.rpc[1].served IN
    \A f \in ContactFields :
        served.after[f] = IF f \in given THEN last.args[f] ELSE served.before[f]

(* C6, as stated: update_contact_info and update_work_schedule put into    *)
(* the request exactly the optional fields whose argument is not None,     *)
(* each with the value given.                                               *)
C6_SetFieldsSentAsGiven ==
    /\ (RemoteCalled /\ last.op = "update_contact_info") =>
          \A f \in ContactFields :
              LastRequest[f] = IF last.args[f] # NoneStr
                               THEN Field(last.args[f]) ELSE UnsetField
    /\ (RemoteCalled /\ last.op = "update_work_schedule") =>
          LastRequest.work_zone = IF last.args.work_zone # NoneStr
                                  THEN Field(last.args.work_zone) ELSE UnsetField

(* C6, amended: an optional string argument (phone, email, push_token,     *)
(* work_zone) that is None or the empty string is absent from the request  *)
(* and any other is sent with the value given; work_hours and              *)
(* max_distance_km are absent exactly when None (a distance of 0 is sent); *)
(* a remote service that overwrites only the fields present keeps every    *)
(* stored contact field whose argument was None or empty, so an update of  *)
(* phone alone leaves the stored email unchanged.                          *)
C6_PartialUpdate ==
    /\ (RemoteCalled /\ last.op = "update_contact_info") =>
          /\ LastRequest.courier_id = last.args.courier_id
          /\ \A f \in ContactFields :
                LastRequest[f] = IF last.args[f] \notin {NoneStr, ""}
                                 THEN Field(last.args[f]) ELSE UnsetField
          /\ last.code = "OK" =>
                StoredOnlyGiven({f \in ContactFields : last.args[f] \notin {NoneStr, ""}})
    /\ (RemoteCalled /\ last.op = "update_work_schedule") =>
          /\ LastRequest.courier_id = last.args.courier_id
          /\ LastRequest.work_zone = IF last.args.work_zone \notin {NoneStr, ""}
                                     THEN Field(last.args.work_zone) ELSE UnsetField
          /\ LastRequest.work_hours =
                IF last.args.work_hours = NoneArg THEN UnsetField
                ELSE Field([start_time |-> last.args.work_hours.start_time,
                            end_time |-> last.args.work_hours.end_time,
                            work_days |-> last.args.work_hours.work_days])
          /\ LastRequest.max_distance_km =
                IF last.args.max_distance_km = NoneArg THEN UnsetField
                ELSE Field(last.args.max_distance_km.v)

\* an update of phone alone was served: email and push_token were not in the
\* request and the stored email is the one held before
C6_Witness ==
    /\ RemoteCalled /\ last.op = "update_contact_info" /\ last.code = "OK"
    /\ last.args.phone = "p1" /\ last.args.email = NoneStr
    /\ last.args.push_token = NoneStr
    /\ LastRequest.phone = Field("p1")
    /\ ~LastRequest.email.set /\ ~LastRequest.push_token.set
    /\ last.rpc[1].served.after.phone = "p1"
    /\ last.rpc[1].served.after.email = last.rpc[1].served.before.email

----------------------------------------------------------------------------
(* Connection life cycle *)

ChannelIds == 1 .. Len(channels)

\* no channel was closed so far
NoneClosed == \A ch \in ChannelIds : channels[ch].closes = 0

\* every channel that existed when the last call began had been closed
AllPriorClosed ==
    \A ch \in ChannelIds : ch # last.created => channels[ch].closes > 0

(* C7: a client just constructed holds no channel and no stub and none was *)
(* opened; an operation on a client that holds no channel opens one (and   *)
(* binds the stub to it when the bindings load), an operation on a client  *)
(* that holds one opens none and keeps it; while no channel was closed at  *)
(* most one channel exists; every remote call goes through the stub bound  *)
(* to the channel the client holds.                                         *)
C7_LazyConnection ==
    /\ last = NoCall =>
          /\ channels = << >>
          /\ \A c \in 1 .. Len(clients) :
                clients[c]._channel = 0 /\ clients[c]._stub = 0
    /\ (IsOperation /\ last.pre._channel = 0) =>
          /\ last.created # 0
          /\ clients[last.client]._channel = last.created
          /\ bindings[LastKind] = "ok" => clients[last.client]._stub = last.created
    /\ (IsOperation /\ last.pre._channel # 0) =>
          /\ last.created = 0
          /\ clients[last.client]._channel = last.pre._channel
          /\ clients[last.client]._stub = last.pre._stub
    /\ NoneClosed => Len(channels) <= 1
    /\ RemoteCalled =>
          /\ last.rpc[1].via = clients[last.client]._stub
          /\ last.rpc[1].via = clients[last.client]._channel
          /\ channels[last.rpc[1].via].owner = last.client
          /\ channels[last.rpc[1].via].closes = 0

\* a later operation made its remote call through the channel the first one
\* opened
C7_Witness ==
    /\ RemoteCalled /\ NoneClosed
    /\ last.pre._channel = 1 /\ last.created = 0
    /\ last.rpc[1].via = 1 /\ Len(channels) = 1

(* C8: close() returns without raising whatever the state of the client,   *)
(* leaves the channel and the stub None, and closes the channel the client *)
(* held; no channel is ever closed twice, and a channel that is not closed *)
(* is the one its client holds.                                             *)
C8_CloseIdempotent ==
    /\ last.op = "close" =>
          /\ last.outcome = "return"
          /\ clients[last.client]._channel = 0
          /\ clients[last.client]._stub = 0
          /\ last.pre._channel # 0 => channels[last.pre._channel].closes = 1
    /\ \A ch \in ChannelIds :
          /\ channels[ch].closes <= 1
          /\ channels[ch].closes = 0 => clients[channels[ch].owner]._channel = ch

\* close() on a client that was connected and is already closed
C8_Witness ==
    /\ last.op = "close" /\ last.outcome = "return"
    /\ last.pre._channel = 0 /\ last.pre._stub = 0
    /\ Len(channels) >= 1
    /\ \A ch \in ChannelIds : channels[ch].closes = 1

(* C9: an operation called when every channel opened before it was closed  *)
(* opens a new channel, and when the bindings load binds a new stub to it  *)
(* and makes the remote call through it, whatever number of channels was   *)
(* opened and closed before.                                                *)
C9_ReconnectAfterClose ==
    (IsOperation /\ AllPriorClosed) =>
        /\ last.created # 0
        /\ clients[last.client]._channel = last.created
        /\ bindings[LastKind] = "ok" =>
              /\ clients[last.client]._stub = last.created
              /\ RemoteCalled
              /\ last.rpc[1].via = last.created

\* the remote call of the third use, after two close/use cycles
C9_Witness ==
    /\ RemoteCalled /\ last.created = 3 /\ last.rpc[1].via = 3
    /\ channels[1].closes = 1 /\ channels[2].closes = 1

----------------------------------------------------------------------------
(* The registry *)

\* the clients constructed without a token, per service
Tokenless(kind) ==
    {c \in 1 .. Len(clients) :
        clients[c].kind = kind /\ clients[c]._auth_token = NoneStr}

(* C10: get_delivery_client without a token (None or empty) and            *)
(* get_oms_client return the client held in the module-level slot,         *)
(* constructing it when the slot is None and returning the instance        *)
(* already held otherwise; at most one such client per service is ever     *)
(* constructed, whatever accesses, operations and close() calls came       *)
(* before.                                                                  *)
C10_RegistrySingleton ==
    /\ \A svc \in {"delivery", "oms"} :
          /\ Cardinality(Tokenless(svc)) <= 1
          /\ _client[svc] # 0 => Tokenless(svc) = {_client[svc]}
          /\ _client[svc] = 0 => Tokenless(svc) = {}
    /\ last.op = "get_oms_client" =>
          /\ last.client # 0 /\ last.client = _client.oms
          /\ last.pre.v # 0 => last.client = last.pre.v
    /\ (last.op = "get_delivery_client" /\ ~Truthy(last.args.auth_token)) =>
          /\ last.client # 0 /\ last.client = _client.delivery
          /\ last.pre.v # 0 => last.client = last.pre.v

\* a later access to the OMS singleton, after it was used and while a
\* tokenless Delivery singleton exists too
C10_Witness ==
    /\ last.op = "get_oms_client" /\ last.pre.v # 0
    /\ last.client = last.pre.v
    /\ clients[_client.oms]._channel # 0
    /\ _client.delivery # 0

----------------------------------------------------------------------------
(* The registry and close(), tokens *)

(* C11: after close() of the client held in a module-level slot the client *)
(* holds no channel and the slot is None again.                            *)
C11_CloseClearsSingleton ==
    (last.op = "close" /\ clients[last.client]._auth_token = NoneStr) =>
        /\ clients[last.client]._channel = 0
        /\ _client[LastKind] = 0

(* C12, as stated: get_delivery_client called with a token (any value but  *)
(* None) appends a new client carrying the token, returns it, and leaves   *)
(* the module-level slots and every client constructed before unchanged.   *)
C12_SuppliedTokenBypasses ==
    [][(last'.op = "get_delivery_client" /\ last'.args.auth_token # NoneStr) =>
          /\ clients' = Append(clients, DeliveryClient(last'.args.auth_token))
          /\ last'.client = Len(clients')
          /\ last'.client \notin {_client'.delivery, _client'.oms}
          /\ _client' = _client]_vars

(* C12, amended: get_delivery_client called with a non-empty token appends *)
(* a new client carrying the token, returns it, and leaves the             *)
(* module-level slots and every client constructed before unchanged; the   *)
(* empty string, like None, gives the singleton.                           *)
C12_TokenBypassesSingleton ==
    [][/\ (last'.op = "get_delivery_client"
             /\ last'.args.auth_token \notin {NoneStr, ""}) =>
            /\ clients' = Append(clients, DeliveryClient(last'.args.auth_token))
            /\ last'.client = Len(clients')
            /\ last'.client \notin {_client'.delivery, _client'.oms}
            /\ _client' = _client
       /\ (last'.op = "get_delivery_client"
             /\ last'.args.auth_token \in {NoneStr, ""}) =>
            last'.client = _client'.delivery]_vars

\* a second client built for the token while the singleton exists: three
\* distinct clients
C12_Witness ==
    /\ last.op = "get_delivery_client" /\ last.args.auth_token = "t1"
    /\ _client.delivery # 0 /\ last.client # _client.delivery
    /\ \E c \in 1 .. Len(clients) :
          /\ c \notin {last.client, _client.delivery}
          /\ clients[c] = DeliveryClient("t1")
    /\ clients[last.client] = DeliveryClient("t1")
    /\ clients[_client.delivery]._auth_token = NoneStr

(* C13, as stated: every remote call of a DeliveryClient constructed with  *)
(* a token t (any value but None) carries the metadata                     *)
(* ("authorization", "Bearer " + t), and a client constructed without one  *)
(* carries none.                                                           *)
C13_TokenAlwaysAttached ==
    (RemoteCalled /\ LastKind = "delivery") =>
        last.rpc[1].metadata =
            IF clients[last.client]._auth_token # NoneStr
            THEN << <<"authorization", "Bearer " \o clients[last.client]._auth_token>> >>
            ELSE << >>

(* C13, amended: every remote call of a DeliveryClient constructed with a  *)
(* non-empty token t carries exactly the metadata                          *)
(* ("authorization", "Bearer " + t); a client constructed with None or the *)
(* empty string carries no metadata.                                       *)
C13_TokenMetadata ==
    (RemoteCalled /\ LastKind = "delivery") =>
        last.rpc[1].metadata =
            IF clients[last.client]._auth_token \notin {NoneStr, ""}
            THEN << <<"authorization", "Bearer " \o clients[last.client]._auth_token>> >>
            ELSE << >>

\* a later call of a client with a token, on the channel it already held
C13_Witness ==
    /\ RemoteCalled /\ last.op = "change_transport_type" /\ last.created = 0
    /\ clients[last.client]._auth_token = "t1"
    /\ last.rpc[1].metadata = << <<"authorization", "Bearer t1">> >>

----------------------------------------------------------------------------
(* Concurrent first use *)

\* every caller has passed connection establishment
AllConnected ==
    threads # << >> /\ \A t \in DOMAIN threads : threads[t].pc = "done"

(* C14: once every concurrent first user of a client has passed            *)
(* connection establishment, the client holds one open channel and its     *)
(* stub is the stub bound to that channel.                                 *)
C14_RaceKeepsOneConnection ==
    (AllConnected /\ last = NoCall) =>
        /\ clients[1]._channel # 0
        /\ channels[clients[1]._channel].closes = 0
        /\ clients[1]._stub = clients[1]._channel

(* C15: once every concurrent first user of a client has left connection   *)
(* establishment, every channel created is the channel the client holds or *)
(* has been closed; after the close() that follows, no channel created by  *)
(* the client is open.                                                     *)
C15_NoChannelLeaked ==
    /\ (RaceFinished /\ last = NoCall) =>
          \A ch \in 1 .. Len(channels) :
              ch = clients[channels[ch].owner]._channel \/ channels[ch].closes > 0
    /\ (RaceFinished /\ last.op = "close") =>
          \A ch \in 1 .. Len(channels) : channels[ch].closes > 0

----------------------------------------------------------------------------
(* Round trips and error classification *)

C17_CancelOutcomes ==
    (RemoteCalled /\ last.op = "cancel_order") =>
        /\ last.code = "NOT_FOUND" =>
              /\ last.outcome = "raise"
              /\ IsInstance(last.exc, "OrderNotFoundError")
              /\ IsInstance(last.exc, "OmsServiceError")
              /\ last.exc # "OmsServiceError"
        /\ last.code \notin {"OK", "NOT_FOUND"} =>
              /\ last.outcome = "raise"
              /\ IsInstance(last.exc, "OmsServiceError")
              /\ ~IsInstance(last.exc, "OrderNotFoundError")
        /\ last.code = "OK" => last.outcome = "return" /\ last.value = TrueVal

\* cancel_order of an order the remote service does not know
C17_Witness ==
    /\ RemoteCalled /\ last.op = "cancel_order" /\ last.code = "NOT_FOUND"
    /\ last.outcome = "raise" /\ last.exc = "OrderNotFoundError"

\* the operations of DeliveryClient that change a courier
DeliveryMutations ==
    {"activate_courier", "deactivate_courier", "archive_courier",
     "update_contact_info", "update_work_schedule", "change_transport_type"}

(* C18: a Delivery operation that changes a courier raises                 *)
(* CourierNotFoundError when the remote call fails with NOT_FOUND.         *)
C18_MutationNotFoundIsTyped ==
    (RemoteCalled /\ last.op \in DeliveryMutations /\ last.code = "NOT_FOUND") =>
        last.outcome = "raise" /\ IsInstance(last.exc, "CourierNotFoundError")

----------------------------------------------------------------------------
(* Pagination of the list results *)

\* the last call was a listing that returned its result
ListingReturned ==
    /\ RemoteCalled /\ last.op \in {"get_courier_pool", "list_orders"}
    /\ last.code = "OK" /\ last.outcome = "return"

(* C19: a result of get_courier_pool or list_orders whose total_count is 0 *)
(* has total_pages 1, whatever pagination the response carries or omits.   *)
C19_EmptyResultHasOnePage ==
    (ListingReturned /\ last.value.total_count = 0) => last.value.total_pages = 1

(* C20: when the response omits pagination, the result of get_courier_pool *)
(* and list_orders carries the page and page_size the caller passed; when  *)
(* it is present, the result carries the server's current_page, page_size  *)
(* and total_pages.                                                        *)
C20_PaginationEchoOrServer ==
    ListingReturned =>
        IF LastResponse.pagination.present
        THEN /\ last.value.current_page = LastResponse.pagination.current_page
             /\ last.value.page_size = LastResponse.pagination.page_size
             /\ last.value.total_pages = LastResponse.pagination.total_pages
        ELSE /\ last.value.current_page = last.args.page
             /\ last.value.page_size = last.args.page_size

----------------------------------------------------------------------------
(* Filters and transport type *)

\* the wire integers of the tokens of xs that have an entry in table, in
\* the order of xs
EncodedKnown(xs, table) ==
    LET known == KnownTokens(xs, table) IN [i \in 1 .. Len(known) |-> table[known[i]]]

\* the tokens of a filter argument (none for None)
FilterTokens(filter) == IF filter.tag = "None" THEN << >> ELSE filter.v

(* C21: get_courier_pool always makes its remote call, whatever tokens the *)
(* filters hold; the request carries, for each filter, the wire integers   *)
(* of the recognized tokens in the caller's order and nothing for an       *)
(* unrecognized one; a served call returns its result.                     *)
C21_FiltersEncodedPermissively ==
    (IsOperation /\ last.op = "get_courier_pool") =>
        /\ RemoteCalled
        /\ LastRequest.status_filter =
              EncodedKnown(FilterTokens(last.args.status_filter), COURIER_STATUS_VALUES)
        /\ LastRequest.transport_type_filter =
              EncodedKnown(FilterTokens(last.args.transport_type_filter),
                           TRANSPORT_TYPE_VALUES)
        /\ last.code = "OK" => last.outcome = "return"

\* a served call whose two filters each hold an unrecognized token
C21_Witness ==
    /\ RemoteCalled /\ last.op = "get_courier_pool" /\ last.code = "OK"
    /\ last.args.status_filter = ListOf(<<"BOGUS", "FREE">>)
    /\ last.args.transport_type_filter = ListOf(<<"car", "BICYCLE">>)
    /\ LastRequest.status_filter = <<2>>
    /\ LastRequest.transport_type_filter = <<2>>
    /\ last.outcome = "return"

(* C22: change_transport_type sends the wire integer of the transport type *)
(* it was given, 0 for a string that has no entry, and returns the         *)
(* max_load of the response, whatever the transport type and the value.    *)
C22_MaxLoadVerbatim ==
    (RemoteCalled /\ last.op = "change_transport_type") =>
        /\ LastRequest.transport_type =
              IF last.args.transport_type \in DOMAIN TRANSPORT_TYPE_VALUES
              THEN TRANSPORT_TYPE_VALUES[last.args.transport_type] ELSE 0
        /\ LastRequest.courier_id = last.args.courier_id
        /\ last.code = "OK" =>
              /\ last.outcome = "return"
              /\ last.value = [tag |-> "int", v |-> LastResponse.max_load]

\* an unrecognized transport type sent as 0, and the load of the response
\* returned
C22_Witness ==
    /\ RemoteCalled /\ last.op = "change_transport_type" /\ last.code = "OK"
    /\ last.args.transport_type = "BOGUS" /\ LastRequest.transport_type = 0
    /\ LastResponse.max_load = 2 /\ last.value.v = 2

----------------------------------------------------------------------------
(* The conversion specification: one client with the bindings present,    *)
(* answered with wire messages whose sub-messages are each set or not set *)

NextConvert ==
    \/ \E c \in Callable("delivery", MaxChannels), id \in CourierIds :
          get_courier(c, id, TRUE, SampleCodes, PartialCouriers(id))
    \/ \E c \in Callable("delivery", MaxChannels), id \in CourierIds :
          get_courier_deliveries(c, id, 5, SampleCodes,
              {[deliveries |-> <<d>>, total_count |-> 1] : d \in PartialDeliveries})
    \/ \E c \in Callable("delivery", MaxChannels), a \in SamplePoolArgs :
          get_courier_pool(c, a, SampleCodes,
              {[couriers |-> <<pc>>, total_count |-> 1,
                pagination |-> [present |-> TRUE, current_page |-> 1,
                               page_size |-> 20, total_pages |-> 1]] :
                  pc \in PartialCouriers("c1")})
    \/ \E c \in Callable("oms", MaxChannels), id \in OrderIds :
          get_order(c, id, SampleCodes, PartialOrders(id))
    \/ \E c \in Callable("oms", MaxChannels), a \in SampleListArgs :
          list_orders(c, a, SampleCodes,
              {[orders |-> <<po>>, total_count |-> 1,
                pagination |-> [present |-> TRUE, current_page |-> 1,
                               page_size |-> 20, total_pages |-> 1]] :
                  po \in PartialOrders("o1")})

SpecConvert == InitData /\ [][NextConvert]_vars

\* an attribute built from a sub-message field: None when the field is not
\* set, the converted value when it is
FromField(attr, f, converted) ==
    IF f.present THEN attr = converted ELSE attr = NoneVal

CourierFromWire(co, pc) ==
    /\ FromField(co.work_hours, pc.work_hours, WorkHours(pc.work_hours.v))
    /\ FromField(co.current_location, pc.current_location,
                 Location(pc.current_location.v))
    /\ FromField(co.created_at, pc.created_at, ToDatetime(pc.created_at.v))
    /\ FromField(co.last_active_at, pc.last_active_at,
                 ToDatetime(pc.last_active_at.v))

DeliveryFromWire(d, pd) ==
    /\ FromField(d.pickup_address, pd.pickup_address, Address(pd.pickup_address.v))
    /\ FromField(d.delivery_address, pd.delivery_address,
                 Address(pd.delivery_address.v))
    /\ FromField(d.assigned_at, pd.assigned_at, ToDatetime(pd.assigned_at.v))
    /\ FromField(d.delivered_at, pd.delivered_at, ToDatetime(pd.delivered_at.v))

InfoFromWire(info, di) ==
    /\ FromField(info.pickup_address, di.pickup_address,
                 DeliveryAddress(di.pickup_address.v))
    /\ FromField(info.delivery_address, di.delivery_address,
                 DeliveryAddress(di.delivery_address.v))
    /\ IF di.delivery_period.present
       THEN /\ info.delivery_period # NoneVal
            /\ FromField(info.delivery_period.start_time,
                         di.delivery_period.v.start_time,
                         ToDatetime(di.delivery_period.v.start_time.v))
            /\ FromField(info.delivery_period.end_time,
                         di.delivery_period.v.end_time,
                         ToDatetime(di.delivery_period.v.end_time.v))
       ELSE info.delivery_period = NoneVal

OrderFromWire(o, po) ==
    /\ FromField(o.created_at, po.created_at, ToDatetime(po.created_at.v))
    /\ FromField(o.updated_at, po.updated_at, ToDatetime(po.updated_at.v))
    /\ IF po.delivery_info.present
       THEN o.delivery_info # NoneVal /\ InfoFromWire(o.delivery_info, po.delivery_info.v)
       ELSE o.delivery_info = NoneVal

\* a served call that returned what it converted
Converted(op) ==
    RemoteCalled /\ last.op = op /\ last.code = "OK" /\ last.outcome = "return"

(* C23: in every courier, delivery and order a client returns, an optional *)
(* attribute is None when the wire message does not carry the sub-message  *)
(* or timestamp, and the converted value when it does; an absent field     *)
(* never becomes a zero-valued object or a timestamp.                      *)
C23_AbsentFieldIsNone ==
    /\ Converted("get_courier") =>
          CourierFromWire(last.value, LastResponse.courier)
    /\ Converted("get_courier_pool") =>
          \A i \in 1 .. Len(LastResponse.couriers) :
              CourierFromWire(last.value.couriers[i], LastResponse.couriers[i])
    /\ Converted("get_courier_deliveries") =>
          \A i \in 1 .. Len(LastResponse.deliveries) :
              DeliveryFromWire(last.value.deliveries[i], LastResponse.deliveries[i])
    /\ Converted("get_order") =>
          OrderFromWire(last.value, LastResponse.order)
    /\ Converted("list_orders") =>
          \A i \in 1 .. Len(LastResponse.orders) :
              OrderFromWire(last.value.orders[i], LastResponse.orders[i])

\* the deliveries and the orders alone: every sub-message of theirs is
\* tested with HasField
DeliveriesAndOrdersFromWire ==
    /\ Converted("get_courier_deliveries") =>
          \A i \in 1 .. Len(LastResponse.deliveries) :
              DeliveryFromWire(last.value.deliveries[i], LastResponse.deliveries[i])
    /\ Converted("get_order") =>
          OrderFromWire(last.value, LastResponse.order)
    /\ Converted("list_orders") =>
          \A i \in 1 .. Len(LastResponse.orders) :
              OrderFromWire(last.value.orders[i], LastResponse.orders[i])

----------------------------------------------------------------------------
(* The list views *)

\* request.GET.get("page"): not in the query string, or its text
QueryValues == {NoneStr, "abc", "1.5", "-3", "0", "1", "50", "100", "101"}

\* the texts int() accepts, with the integer each stands for
IntegerTexts ==
    ("-3" :> (0 - 3)) @@ ("0" :> 0) @@ ("1" :> 1) @@ ("50" :> 50) @@ ("100" :> 100)
    @@ ("101" :> 101)

\* int(value): TypeError for None, ValueError for a text that is no integer
int(value) ==
    IF value = NoneStr THEN [exc |-> "TypeError", v |-> 0]
    ELSE IF value \in DOMAIN IntegerTexts THEN [exc |-> "-", v |-> IntegerTexts[value]]
    ELSE [exc |-> "ValueError", v |-> 0]

\* a parser that keeps a value above max_value
_parse_positive_int_unbounded(value, default, min_value, max_value) ==
    LET parsed == int(value) IN
    IF parsed.exc \in {"TypeError", "ValueError"} THEN default
    ELSE IF parsed.v < min_value THEN min_value
    ELSE parsed.v

\* _parse_positive_int(value, default, min_value=1, max_value=None)
_parse_positive_int(value, default, min_value, max_value) ==
    LET parsed == int(value) IN
    IF parsed.exc \in {"TypeError", "ValueError"} THEN default
    ELSE IF parsed.v < min_value THEN min_value
    ELSE IF max_value # NoneArg /\ parsed.v > max_value.v THEN max_value.v
    ELSE parsed.v

Queries == [tag : {"query"}, page : QueryValues, page_size : QueryValues]

\* the context a list view renders
ListPage(items, total_count, page, page_size, total_pages) ==
    [tag |-> "page", items |-> items, total_count |-> total_count, page |-> page,
     page_size |-> page_size, total_pages |-> total_pages]

\* courier_list with no filter of the form filled in; q is request.GET
courier_list(q, codes, responses) ==
    LET page == _parse_positive_int(q.page, 1, 1, NoneArg)
        page_size == _parse_positive_int(q.page_size, 20, 1, [tag |-> "int", v |-> 100])
        a == [tag |-> "args", status_filter |-> NoneList,
              transport_type_filter |-> NoneList, zone_filter |-> NoneStr,
              available_only |-> FALSE, include_location |-> TRUE,
              page |-> page, page_size |-> page_size]
        \* client = get_delivery_client()
        first == _client.delivery = 0
        cls == IF first THEN Append(clients, DeliveryClient(NoneStr)) ELSE clients
        c == IF first THEN Len(clients) + 1 ELSE _client.delivery
    IN
    /\ first => Len(clients) < MaxClients
    /\ cls[c]._channel = 0 => Len(channels) < MaxChannels
    /\ _client' = [_client EXCEPT !.delivery = c]
    /\ \E code \in codes : \E r \in Answers(code, responses) :
          LET result == get_courier_pool_result(a, r) IN
          OperationOn(cls, c, "courier_list", q,
                      "GetCourierPool", GetCourierPoolRequest(a),
                      code, r,
                      Returned(ListPage(result.couriers, result.total_count,
                                        page, page_size, result.total_pages)),
                      Returned(ListPage(<< >>, 0, page, page_size, 1)),
                      NoneVal)

\* order_list with no filter of the form filled in; q is request.GET
order_list(q, codes, responses) ==
    LET page == _parse_positive_int(q.page, 1, 1, NoneArg)
        page_size == _parse_positive_int(q.page_size, 20, 1, [tag |-> "int", v |-> 100])
        a == [tag |-> "args", customer_id |-> NoneStr, status_filter |-> NoneList,
              page |-> page, page_size |-> page_size]
        \* client = get_oms_client()
        first == _client.oms = 0
        cls == IF first THEN Append(clients, OmsClient) ELSE clients
        c == IF first THEN Len(clients) + 1 ELSE _client.oms
    IN
    /\ first => Len(clients) < MaxClients
    /\ cls[c]._channel = 0 => Len(channels) < MaxChannels
    /\ _client' = [_client EXCEPT !.oms = c]
    /\ \E code \in codes : \E r \in Answers(code, responses) :
          LET result == list_orders_result(a, r) IN
          OperationOn(cls, c, "order_list", q,
                      "List", ListRequest(a),
                      code, r,
                      IF result.outcome = "raise" THEN result
                      ELSE Returned(ListPage(result.value.orders,
                                             result.value.total_count,
                                             page, page_size,
                                             result.value.total_pages)),
                      Returned(ListPage(<< >>, 0, page, page_size, 1)),
                      NoneVal)

\* the arguments a with page p and page_size n
Paged(args, numbers) ==
    {[a EXCEPT !.page = p, !.page_size = n] : a \in args, p \in numbers, n \in numbers}

NextViews ==
    \/ \E q \in Queries : courier_list(q, {"OK", "UNAVAILABLE"}, SamplePoolResponses)
    \/ \E q \in Queries : order_list(q, {"OK", "UNAVAILABLE"}, SampleListResponses)
    \/ \E c \in Callable("delivery", MaxChannels), a \in Paged(SamplePoolArgs, {0 - 3, 0, 1, 101}) :
          get_courier_pool(c, a, {"OK", "UNAVAILABLE"}, SamplePoolResponses)
    \/ \E c \in Callable("oms", MaxChannels), a \in Paged(SampleListArgs, {0 - 3, 0, 1, 101}) :
          list_orders(c, a, {"OK", "UNAVAILABLE"}, SampleListResponses)

SpecViews == InitRegistry /\ [][NextViews]_vars

\* a list view, or a listing operation, that sent its request
ViewCalled == last.op \in {"courier_list", "order_list"} /\ Len(last.rpc) = 1
ListingCalled == RemoteCalled /\ last.op \in {"get_courier_pool", "list_orders"}

\* what the views' parsing is to give for a query value
Clamped(value, default, low, high) ==
    IF value \notin DOMAIN IntegerTexts THEN default
    ELSE IF IntegerTexts[value] < low THEN low
    ELSE IF IntegerTexts[value] > high THEN high
    ELSE IntegerTexts[value]

(* C24: the request of courier_list and of order_list carries page >= 1    *)
(* and 1 <= page_size <= 100: page 1 and page_size 20 for a missing or     *)
(* non-integer query value, the nearest bound for one out of range, the    *)
(* value itself otherwise; get_courier_pool and list_orders send the page  *)
(* and page_size they were given, whatever they are.                       *)
C24_PaginationClamped ==
    /\ ViewCalled =>
          LET p == last.rpc[1].request.pagination IN
          /\ p.page >= 1 /\ p.page_size >= 1 /\ p.page_size <= 100
          /\ p.page = IF last.args.page \in DOMAIN IntegerTexts
                      THEN (IF IntegerTexts[last.args.page] < 1 THEN 1
                            ELSE IntegerTexts[last.args.page])
                      ELSE 1
          /\ p.page_size = Clamped(last.args.page_size, 20, 1, 100)
    /\ ListingCalled =>
          /\ LastRequest.pagination.page = last.args.page
          /\ LastRequest.pagination.page_size = last.args.page_size

\* a view asked for page_size 101 and page -3 sent 100 and 1
C24_Witness ==
    /\ ViewCalled /\ last.op = "courier_list"
    /\ last.args.page = "-3" /\ last.args.page_size = "101"
    /\ last.rpc[1].request.pagination = [page |-> 1, page_size |-> 100]

----------------------------------------------------------------------------
(* Channel and stub *)

(* C25: in every state reached by constructing a client, calling its       *)
(* operations and closing it, also after a connection attempt that failed  *)
(* on the import of the stub bindings, the client holds a channel exactly  *)
(* when it holds a stub.                                                   *)
C25_ChannelIffStub ==
    \A c \in 1 .. Len(clients) : (clients[c]._channel = 0) <=> (clients[c]._stub = 0)

----------------------------------------------------------------------------
(* close() beside the calls of other threads: MaxThreads threads share     *)
(* client 1; each runs get_courier / get_order or close(), statement by    *)
(* statement, and may start another call when it has finished one          *)

IdleThread == [call |-> "-", pc |-> "idle", exc |-> "-"]

InitCloseRace ==
    /\ bindings = [delivery |-> "ok", oms |-> "ok"]
    /\ clients \in {<<DeliveryClient(NoneStr)>>, <<OmsClient>>}
    /\ _client = [delivery |-> 0, oms |-> 0]
    /\ channels = << >>
    /\ last = NoCall
    /\ threads = [t \in ThreadIds |-> IdleThread]

\* the first statement of a lookup: self._ensure_connected()
lookup_connect(t) ==
    LET conn == _ensure_connected(clients[1], Len(channels) + 1) IN
    /\ threads[t].pc \in {"idle", "done"}
    /\ clients[1]._channel = 0 => Len(channels) < MaxChannels
    /\ clients' = [clients EXCEPT ![1] = conn.client]
    /\ channels' = IF conn.created # 0
                   THEN Append(channels, [owner |-> 1, closes |-> 0])
                   ELSE channels
    /\ threads' = [threads EXCEPT ![t] = [call |-> "lookup", pc |-> "invoke",
                                          exc |-> "-"]]
    /\ UNCHANGED <<bindings, _client, last>>

\* try: response = self._stub.GetCourier(request, ...) with its except
\* clause: self._stub is read now; grpc refuses a closed channel (ValueError)
lookup_invoke(t, codes) ==
    LET stub == clients[1]._stub
        result == IF stub = 0 THEN "AttributeError"
                  ELSE IF channels[stub].closes # 0 THEN "ValueError"
                  ELSE "-"
    IN
    /\ threads[t].pc = "invoke"
    /\ \E code \in codes :
          threads' = [threads EXCEPT
                         ![t].pc = "done",
                         ![t].exc = IF result # "-" THEN result
                                    ELSE IF code \in {"OK", "NOT_FOUND"} THEN "-"
                                    ELSE ServiceError(clients[1].kind)]
    /\ UNCHANGED <<bindings, clients, _client, channels, last>>

\* close(): `if self._channel:`
close_test(t) ==
    /\ threads[t].pc \in {"idle", "done"}
    /\ threads' = [threads EXCEPT ![t] =
                      [call |-> "close",
                       pc |-> IF clients[1]._channel # 0 THEN "close_channel" ELSE "done",
                       exc |-> "-"]]
    /\ UNCHANGED <<bindings, clients, _client, channels, last>>

\* close(): `self._channel.close()`, self._channel read again
close_channel(t) ==
    /\ threads[t].pc = "close_channel"
    /\ IF clients[1]._channel = 0
       THEN /\ threads' = [threads EXCEPT ![t].pc = "done",
                                          ![t].exc = "AttributeError"]
            /\ UNCHANGED channels
       ELSE /\ channels' = [channels EXCEPT ![clients[1]._channel].closes = @ + 1]
            /\ threads' = [threads EXCEPT ![t].pc = "clear_channel"]
    /\ UNCHANGED <<bindings, clients, _client, last>>

\* close(): `self._channel = None`
close_clear_channel(t) ==
    /\ threads[t].pc = "clear_channel"
    /\ clients' = [clients EXCEPT ![1]._channel = 0]
    /\ threads' = [threads EXCEPT ![t].pc = "clear_stub"]
    /\ UNCHANGED <<bindings, _client, channels, last>>

\* close(): `self._stub = None`
close_clear_stub(t) ==
    /\ threads[t].pc = "clear_stub"
    /\ clients' = [clients EXCEPT ![1]._stub = 0]
    /\ threads' = [threads EXCEPT ![t].pc = "done"]
    /\ UNCHANGED <<bindings, _client, channels, last>>

NextCloseRace ==
    \/ \E t \in ThreadIds : lookup_connect(t)
    \/ \E t \in ThreadIds : lookup_invoke(t, SampleCodes)
    \/ \E t \in ThreadIds : close_test(t)
    \/ \E t \in ThreadIds : close_channel(t)
    \/ \E t \in ThreadIds : close_clear_channel(t)
    \/ \E t \in ThreadIds : close_clear_stub(t)

SpecCloseRace == InitCloseRace /\ [][NextCloseRace]_vars

\* a call of thread t that has ended beside a close() of another thread
EndedBesideClose(t) ==
    /\ threads[t].pc = "done" /\ threads[t].call \in {"lookup", "close"}
    /\ \E u \in DOMAIN threads : u # t /\ threads[u].call = "close"

(* C26: when close() runs on a shared client beside a lookup that has      *)
(* passed its connection check, or beside another close(), every call      *)
(* ends by returning or by raising the client's service error; none ends   *)
(* in an error from a stub or channel that was set to None.                *)
C26_CloseRaceOutcomes ==
    \A t \in DOMAIN threads :
        EndedBesideClose(t) =>
            threads[t].exc \in {"-", ServiceError(clients[1].kind)}

----------------------------------------------------------------------------
(* The registry beside the calls of other threads: up to MaxThreads        *)
(* threads call get_delivery_client() with no token or get_oms_client(),   *)
(* statement by statement, and use the client they were given              *)

\* `if _client is None:`, by a thread entering the accessor of svc
registry_test(svc) ==
    /\ Len(threads) < MaxThreads
    /\ threads' = Append(threads,
                         [svc |-> svc,
                          pc |-> IF _client[svc] = 0 THEN "construct" ELSE "return",
                          client |-> 0])
    /\ UNCHANGED <<bindings, clients, _client, channels, last>>

\* `_client = DeliveryClient()` / `_client = OmsClient()`
registry_construct(t) ==
    /\ threads[t].pc = "construct"
    /\ Len(clients) < MaxClients
    /\ clients' = Append(clients, IF threads[t].svc = "delivery"
                                  THEN DeliveryClient(NoneStr) ELSE OmsClient)
    /\ _client' = [_client EXCEPT ![threads[t].svc] = Len(clients) + 1]
    /\ threads' = [threads EXCEPT ![t].pc = "return"]
    /\ UNCHANGED <<bindings, channels, last>>

\* `return _client`: the module variable as it is now
registry_return(t) ==
    /\ threads[t].pc = "return"
    /\ threads' = [threads EXCEPT ![t].pc = "returned",
                                  ![t].client = _client[threads[t].svc]]
    /\ UNCHANGED <<bindings, clients, _client, channels, last>>

\* the clients a thread was given
Given == {threads[t].client : t \in {u \in DOMAIN threads : threads[u].pc = "returned"}}

NextRegistryRace ==
    \/ \E svc \in {"delivery", "oms"} : registry_test(svc)
    \/ \E t \in DOMAIN threads : registry_construct(t)
    \/ \E t \in DOMAIN threads : registry_return(t)
    \/ \E c \in Callable("delivery", MaxChannels) \cap Given, id \in CourierIds :
          get_courier(c, id, FALSE, {"OK"}, {SampleCourier(id, 2)})
    \/ \E c \in Callable("oms", MaxChannels) \cap Given, id \in OrderIds :
          get_order(c, id, {"OK"}, {SampleOrder(id, 1)})

SpecRegistryRace == InitRegistry /\ [][NextRegistryRace]_vars

\* the client objects of a service
Instances(svc) == {c \in 1 .. Len(clients) : clients[c].kind = svc}

(* C27: when threads make the first access to the registry at the same     *)
(* time, each service has at most one client object, every caller is given *)
(* that object, and no other object holds a connection.                    *)
C27_OneSingletonUnderRace ==
    \A svc \in {"delivery", "oms"} :
        /\ Cardinality(Instances(svc)) <= 1
        /\ \A t \in DOMAIN threads :
              (threads[t].pc = "returned" /\ threads[t].svc = svc) =>
                  threads[t].client = _client[svc]
        /\ \A c \in Instances(svc) : clients[c]._channel # 0 => c = _client[svc]

----------------------------------------------------------------------------
(* Failures and the connection *)

\* the remote call of the last operation failed: it raised the service
\* error or gave the absent value
RemoteFailed == RemoteCalled /\ last.code # "OK"

(* C28: an operation whose remote call failed leaves the client with the   *)
(* channel and the stub the call went through, open, and the operation     *)
(* that follows it on that client opens no channel and goes through the    *)
(* same one.                                                               *)
C28_FailureKeepsConnection ==
    [][RemoteFailed =>
          /\ clients[last.client]._channel = last.rpc[1].via
          /\ clients[last.client]._stub = last.rpc[1].via
          /\ channels[last.rpc[1].via].closes = 0
          /\ last.pre._channel # 0 =>
                /\ last.created = 0
                /\ clients[last.client]._channel = last.pre._channel
                /\ clients[last.client]._stub = last.pre._stub
          /\ (last'.op \in DeliveryOps \cup OmsOps /\ last'.client = last.client) =>
                /\ last'.created = 0
                /\ Len(last'.rpc) = 1
                /\ last'.rpc[1].via = last.rpc[1].via
                /\ Len(channels') = Len(channels)]_vars

\* a remote call that failed on a client whose previous call had opened the
\* channel: it went through that channel and left it in place
C28_Witness ==
    /\ RemoteFailed /\ last.code = "UNAVAILABLE" /\ last.outcome = "raise"
    /\ last.pre._channel = 1 /\ last.created = 0 /\ last.rpc[1].via = 1
    /\ clients[last.client]._channel = 1 /\ clients[last.client]._stub = 1
    /\ Len(channels) = 1

----------------------------------------------------------------------------
(* The deliveries of a courier *)

\* the package ids of a sequence of deliveries, in its order
RECURSIVE PackageIds(_)
PackageIds(ds) ==
    IF ds = << >> THEN << >> ELSE <<Head(ds).package_id>> \o PackageIds(Tail(ds))

(* C29: get_courier_deliveries answers a remote NOT_FOUND with the empty   *)
(* result (no deliveries, total_count 0), any other failure with           *)
(* DeliveryServiceError, and a served call with the deliveries of the      *)
(* response in its order and the total_count of the response.              *)
C29_DeliveriesOutcomes ==
    (RemoteCalled /\ last.op = "get_courier_deliveries") =>
        /\ last.code = "NOT_FOUND" =>
              /\ last.outcome = "return"
              /\ last.value = CourierDeliveriesResult(<< >>, 0)
        /\ last.code \notin {"OK", "NOT_FOUND"} =>
              last.outcome = "raise" /\ last.exc = "DeliveryServiceError"
        /\ last.code = "OK" =>
              /\ last.outcome = "return"
              /\ last.value.tag = "CourierDeliveriesResult"
              /\ last.value.total_count = LastResponse.total_count
              /\ PackageIds(last.value.deliveries) = PackageIds(LastResponse.deliveries)

\* two deliveries returned in the order of the response, with a
\* total_count that is the server's and not their number
C29_Witness ==
    /\ RemoteCalled /\ last.op = "get_courier_deliveries" /\ last.code = "OK"
    /\ PackageIds(LastResponse.deliveries) = <<"pk2", "pk1">>
    /\ PackageIds(last.value.deliveries) = <<"pk2", "pk1">>
    /\ LastResponse.total_count = 1 /\ last.value.total_count = 1

----------------------------------------------------------------------------
(* The courier pool of a filtering backend *)

\* the elements of a sequence
Range(xs) == {xs[i] : i \in 1 .. Len(xs)}

\* a backend holding the couriers `held`: the response carries those whose
\* status is in the status filter of the request, all of them when the
\* filter is empty
ServeCourierPool(held, req) ==
    LET Matches(pc) == req.status_filter = << >> \/ pc.status \in Range(req.status_filter)
        couriers == SelectSeq(held, Matches)
    IN [couriers |-> couriers, total_count |-> Len(couriers),
        pagination |-> [present |-> TRUE, current_page |-> req.pagination.page,
                        page_size |-> req.pagination.page_size, total_pages |-> 1]]

\* get_courier_pool with a status filter of one or two tokens, recognized
\* or not, answered by a backend that holds up to two couriers
NextBackend ==
    \E c \in Callable("delivery", MaxChannels), a \in SamplePoolArgs :
    \E t1 \in {"FREE", "BUSY", "BOGUS", "free"}, t2 \in {"-", "FREE", "BUSY", "BOGUS"} :
    \E held \in {<<SampleCourier("c1", 2)>>,
                 <<SampleCourier("c1", 3)>>,
                 <<SampleCourier("c1", 1), SampleCourier("c2", 2)>>,
                 <<SampleCourier("c1", 2), SampleCourier("c2", 3)>>} :
        LET F == IF t2 = "-" THEN <<t1>> ELSE <<t1, t2>>
            args == [a EXCEPT !.status_filter = ListOf(F)]
        IN get_courier_pool(c, args, SampleCodes,
                            {ServeCourierPool(held, GetCourierPoolRequest(args))})

SpecBackend == InitData /\ [][NextBackend]_vars

(* C30: when the backend returns exactly the couriers whose status is in   *)
(* the status filter it receives (all of them for an empty filter), every  *)
(* courier get_courier_pool returns for a non-empty status_filter F has a  *)
(* status that is in F, also when F holds unrecognized tokens.             *)
C30_FilterRestricts ==
    (RemoteCalled /\ last.op = "get_courier_pool" /\ last.code = "OK"
        /\ last.args.status_filter # NoneList /\ last.args.status_filter.v # << >>) =>
        \A i \in 1 .. Len(last.value.couriers) :
            last.value.couriers[i].status \in Range(last.args.status_filter.v)

====
